---- MODULE Spec2Model ----
(***************************************************************************)
(* ZipJS: the ZIP container codec of src/zip.js (Crc32, ByteArrayCursor,   *)
(* the three record codecs, ZipDateTime, Extractor, Builder), the second   *)
(* variant of the module in src/unnamed/part_001 (DataView based), and the *)
(* rename handler of src/sample/make.js.                                   *)
(*                                                                         *)
(* Representation of JavaScript values                                     *)
(*  - a byte array is a sequence of 0..255; index i of the array is        *)
(*    element i+1 of the sequence;                                         *)
(*  - TLC integers are 32 bit signed, JavaScript numbers are doubles.  A   *)
(*    number that a 32 bit field can hold (signature, crc32, sizes,        *)
(*    offsets, packed time) is a pair <<hi, lo>> standing for              *)
(*    hi * 65536 + lo with lo in 0..65535 and hi any integer, so that the  *)
(*    signed results of ^ & << and the unsigned results of >>> are         *)
(*    different values, as they are in JavaScript;                         *)
(*  - undefined is the empty tuple << >> where a number pair, a one element*)
(*    option or a record is expected;                                      *)
(*  - a string is the sequence of its code points;                         *)
(*  - a Date is <<days since the epoch, milliseconds of the day>>.         *)
(***************************************************************************)
EXTENDS Integers, Sequences, FiniteSets, TLC

(***************************************************************************)
(* Numbers                                                                 *)
(***************************************************************************)
\* the number n (a TLC integer) as a pair
W(n) == <<n \div 65536, n % 65536>>

\* the TLC integer of a pair that is known to be small
WVal(w) == w[1] * 65536 + w[2]

\* a + b on doubles holding integers
WAdd(a, b) == <<a[1] + b[1] + ((a[2] + b[2]) \div 65536), (a[2] + b[2]) % 65536>>

\* ToInt32 of ECMAScript: what the operands and results of ^ & | << >> are
ToInt32(w) == <<((w[1] + 32768) % 65536) - 32768, w[2]>>

\* ToUint32 of ECMAScript: what x >>> 0 is
ToUint32(w) == <<w[1] % 65536, w[2]>>

\* w <= n for a pair w and a TLC integer n
WLeq(w, n) == w[1] < n \div 65536 \/ (w[1] = n \div 65536 /\ w[2] <= n % 65536)

RECURSIVE XorBits(_, _, _)
\* a ^ b bit by bit on two values of k bits
XorBits(a, b, k) ==
    IF k = 0 THEN 0
    ELSE ((a + b) % 2) + 2 * XorBits(a \div 2, b \div 2, k - 1)

\* x ^ y for x, y in 0..15
XorNibble == [x \in 0..15 |-> [y \in 0..15 |-> XorBits(x, y, 4)]]

RECURSIVE Xor16(_, _, _)
\* a ^ b on two values of k bits, k a multiple of 4 up to 16
Xor16(a, b, k) ==
    IF k = 0 THEN 0
    ELSE XorNibble[a % 16][b % 16] + 16 * Xor16(a \div 16, b \div 16, k - 4)

\* a ^ b : a signed 32 bit result
Xor32(a, b) ==
    ToInt32(<<Xor16(a[1] % 65536, b[1] % 65536, 16), Xor16(a[2], b[2], 16)>>)

\* c >>> k for 0 < k < 16 : an unsigned 32 bit result
Shr(c, k) ==
    LET u == ToUint32(c)
        p == 2 ^ k
    IN  <<u[1] \div p, (u[2] \div p) + ((u[1] % p) * (65536 \div p))>>

\* n << k for a small integer n, as the signed 32 bit result of <<
Shl(n, k) ==
    IF k >= 16 THEN ToInt32(<<n * 2 ^ (k - 16), 0>>)
    ELSE ToInt32(<<(n * 2 ^ k) \div 65536, (n * 2 ^ k) % 65536>>)

\* [i & 0xff, i >>> 8 & 0xff, i >>> 16 & 0xff, i >>> 24 & 0xff]; undefined & 0xff = 0
Octets(i) ==
    IF i = << >> THEN <<0, 0, 0, 0>>
    ELSE <<i[2] % 256, i[2] \div 256, i[1] % 256, (i[1] % 65536) \div 256>>

(***************************************************************************)
(* Crc32 (src/zip.js 50-83; crc32table, calcCrc32 of src/unnamed/part_001) *)
(***************************************************************************)
RECURSIVE tableStep(_, _)
\* j rounds of: mc = c >>> 1; c = c & 1 ? 0xedb88320 ^ mc : mc
tableStep(c, j) ==
    IF j = 0 THEN c
    ELSE LET mc == Shr(c, 1)
             next == IF c[2] % 2 = 1 THEN Xor32(<<60856, 33568>>, mc) ELSE mc
         IN  IF next = next THEN tableStep(next, j - 1) ELSE c

\* this.#table, a Uint32Array of 256 elements
table == [i \in 0..255 |-> ToUint32(tableStep(W(i), 8))]

\* one round of the loop of calc: c = this.#table[(c ^ b) & 0xff] ^ (c >>> 8)
calcStep(c, b) == Xor32(table[Xor16(c[2] % 256, b, 8)], Shr(c, 8))

RECURSIVE calcLoop(_, _, _)
calcLoop(c, bytes, k) ==
    IF k > Len(bytes) THEN c
    ELSE LET next == calcStep(c, bytes[k])
         IN  IF next = next THEN calcLoop(next, bytes, k + 1) ELSE c

\* Crc32.calc: the loop starts from 0xffffffff and the result is c ^ 0xffffffff
calc(bytes) == Xor32(calcLoop(<<65535, 65535>>, bytes, 1), <<65535, 65535>>)

\* the digits of Number.prototype.toString(16)
HexDigits == <<"0", "1", "2", "3", "4", "5", "6", "7", "8", "9", "a", "b", "c", "d", "e", "f">>

\* b.toString(16) for b in 0..255: one digit below 16, two from there
toString16(b) ==
    IF b < 16 THEN <<HexDigits[b + 1]>>
    ELSE <<HexDigits[(b \div 16) + 1], HexDigits[(b % 16) + 1]>>

\* str.padStart(2, '0')
padStart2(str) == IF Len(str) < 2 THEN <<"0">> \o str ELSE str

\* toUpperCase, were the letters left as they are
toUpperCase_Same(ch) == ch

\* String.prototype.toUpperCase on one character of a hex string
toUpperCase(ch) ==
    CASE ch = "a" -> "A" [] ch = "b" -> "B" [] ch = "c" -> "C"
      [] ch = "d" -> "D" [] ch = "e" -> "E" [] ch = "f" -> "F"
      [] OTHER -> ch

\* [24, 16, 8, 0].map(shift => int32 >>> shift & 0xff)
fmtOctets(int32) ==
    <<ToUint32(int32)[1] \div 256, ToUint32(int32)[1] % 256,
      int32[2] \div 256, int32[2] % 256>>

\* Crc32.fmt(int32): the string as the sequence of its characters
fmt(int32) ==
    LET joined == padStart2(toString16(fmtOctets(int32)[1]))
                  \o padStart2(toString16(fmtOctets(int32)[2]))
                  \o padStart2(toString16(fmtOctets(int32)[3]))
                  \o padStart2(toString16(fmtOctets(int32)[4]))
    IN  [k \in 1..Len(joined) |-> toUpperCase(joined[k])]

(***************************************************************************)
(* TextEncoder / TextDecoder of the host, UTF-8                            *)
(***************************************************************************)
\* the UTF-8 bytes of one code point; a lone surrogate is encoded as U+FFFD
EncodeCodePoint(cp) ==
    IF cp < 128 THEN <<cp>>
    ELSE IF cp < 2048 THEN <<192 + (cp \div 64), 128 + (cp % 64)>>
    ELSE IF cp >= 55296 /\ cp <= 57343 THEN <<239, 191, 189>>
    ELSE IF cp < 65536 THEN <<224 + (cp \div 4096), 128 + ((cp \div 64) % 64), 128 + (cp % 64)>>
    ELSE <<240 + (cp \div 262144), 128 + ((cp \div 4096) % 64),
           128 + ((cp \div 64) % 64), 128 + (cp % 64)>>

RECURSIVE TextEncode(_)
\* TextEncoder.encode(str); encode(undefined) is the empty array
TextEncode(str) ==
    IF str = << >> THEN << >> ELSE EncodeCodePoint(Head(str)) \o TextEncode(Tail(str))

IsCont(bytes, k) == k <= Len(bytes) /\ bytes[k] >= 128 /\ bytes[k] <= 191

RECURSIVE DecodeFrom(_, _)
\* the code points of bytes[k..], malformed input replaced by U+FFFD
DecodeFrom(bytes, k) ==
    IF k > Len(bytes) THEN << >>
    ELSE LET b == bytes[k]
         IN  IF b < 128 THEN <<b>> \o DecodeFrom(bytes, k + 1)
             ELSE IF b >= 194 /\ b <= 223 /\ IsCont(bytes, k + 1)
                  THEN <<(b - 192) * 64 + (bytes[k + 1] - 128)>> \o DecodeFrom(bytes, k + 2)
             ELSE IF b >= 224 /\ b <= 239 /\ IsCont(bytes, k + 1)
                     /\ (b = 224 => bytes[k + 1] >= 160) /\ (b = 237 => bytes[k + 1] <= 159)
                  THEN IF IsCont(bytes, k + 2)
                       THEN <<(b - 224) * 4096 + (bytes[k + 1] - 128) * 64 + (bytes[k + 2] - 128)>>
                            \o DecodeFrom(bytes, k + 3)
                       ELSE <<65533>> \o DecodeFrom(bytes, k + 2)
             ELSE IF b >= 240 /\ b <= 244 /\ IsCont(bytes, k + 1)
                     /\ (b = 240 => bytes[k + 1] >= 144) /\ (b = 244 => bytes[k + 1] <= 143)
                  THEN IF IsCont(bytes, k + 2) /\ IsCont(bytes, k + 3)
                       THEN <<(b - 240) * 262144 + (bytes[k + 1] - 128) * 4096
                              + (bytes[k + 2] - 128) * 64 + (bytes[k + 3] - 128)>>
                            \o DecodeFrom(bytes, k + 4)
                       ELSE IF IsCont(bytes, k + 2)
                            THEN <<65533>> \o DecodeFrom(bytes, k + 3)
                            ELSE <<65533>> \o DecodeFrom(bytes, k + 2)
             ELSE <<65533>> \o DecodeFrom(bytes, k + 1)

\* new TextDecoder().decode(bytes): UTF-8, a leading byte order mark is dropped
TextDecode(bytes) ==
    IF Len(bytes) >= 3 /\ bytes[1] = 239 /\ bytes[2] = 187 /\ bytes[3] = 191
    THEN DecodeFrom(bytes, 4)
    ELSE DecodeFrom(bytes, 1)

(***************************************************************************)
(* ZipDateTime (src/zip.js 276-330)                                        *)
(***************************************************************************)
\* ZipDateTime.fromDate(d): the calendar fields of the Date d = <<days, ms>>,
\* read with getFullYear, getMonth() + 1, getDate, getHours, getMinutes,
\* getSeconds; the host's time zone is taken to be UTC
fromDate(d) ==
    LET z == d[1] + 719468
        era == z \div 146097
        doe == z - era * 146097
        yoe == (doe - (doe \div 1460) + (doe \div 36524) - (doe \div 146096)) \div 365
        doy == doe - (365 * yoe + (yoe \div 4) - (yoe \div 100))
        mp == (5 * doy + 2) \div 153
        m == IF mp < 10 THEN mp + 3 ELSE mp - 9
    IN  [year |-> yoe + era * 400 + (IF m <= 2 THEN 1 ELSE 0),
         month |-> m,
         day |-> doy - ((153 * mp + 2) \div 5) + 1,
         hour |-> d[2] \div 3600000,
         minute |-> (d[2] \div 60000) % 60,
         second |-> (d[2] \div 1000) % 60]

\* toInt, were the second added as it is
toInt_Second(dt) ==
    WAdd(WAdd(WAdd(WAdd(WAdd(Shl(dt.year - 1980, 25), Shl(dt.month, 21)),
                             Shl(dt.day, 16)),
                        Shl(dt.hour, 11)),
                   Shl(dt.minute, 5)),
         W(dt.second))

\* ZipDateTime.toInt
toInt(dt) ==
    WAdd(WAdd(WAdd(WAdd(WAdd(Shl(dt.year - 1980, 25), Shl(dt.month, 21)),
                             Shl(dt.day, 16)),
                        Shl(dt.hour, 11)),
                   Shl(dt.minute, 5)),
         W(dt.second \div 2))

\* fromInt, were the year taken with the signed shift >>
fromInt_Signed(i) ==
    [year |-> 1980 + (i[1] \div 512),
     month |-> (ToUint32(i)[1] \div 32) % 16,
     day |-> ToUint32(i)[1] % 32,
     hour |-> ToUint32(i)[2] \div 2048,
     minute |-> (ToUint32(i)[2] \div 32) % 64,
     second |-> (i[2] % 32) * 2]

\* ZipDateTime.fromInt(i), i a number pair
fromInt(i) ==
    [year |-> 1980 + (ToUint32(i)[1] \div 512),
     month |-> (ToUint32(i)[1] \div 32) % 16,
     day |-> ToUint32(i)[1] % 32,
     hour |-> ToUint32(i)[2] \div 2048,
     minute |-> (ToUint32(i)[2] \div 32) % 64,
     second |-> (i[2] % 32) * 2]

(***************************************************************************)
(* ByteArrayCursor (src/zip.js 586-703)                                    *)
(*                                                                         *)
(* A cursor is a byte array and an offset.  The offset setter accepts every*)
(* v <= bytes.length, so a read, which is this.bytes[this.offset++],       *)
(* throws 'Index is invalid' exactly when it would leave the offset beyond *)
(* the end, and reads undefined at a negative offset.                      *)
(***************************************************************************)
IndexIsInvalid == [ok |-> FALSE, reason |-> "Index is invalid"]

\* set offset(v) / moveTo(index) accepts v, a number pair
offsetAccepts(bytes, v) == WLeq(v, Len(bytes))

\* whether n bytes can be read, or a subarray of n bytes taken, at offset off
canAdvance(bytes, off, n) == off + n <= Len(bytes)

\* writeUshort, were only the low octet written
writeUshort_Low(s) == <<s % 256, 0>>

\* writeUshort(s): s & 0xff, s >>> 8 & 0xff
writeUshort(s) == <<s % 256, (s \div 256) % 256>>

\* writeInt(i): the four octets of a number pair
writeInt(i) == Octets(i)

\* readAsUshort at offset off
readAsUshort(bytes, off) == bytes[off + 1] + 256 * bytes[off + 2]

\* readAsInt at offset off: read() + (read() << 8) + (read() << 16) + (read() << 24);
\* read() at offset -1 is undefined and the sum is NaN, which is << >> here
readAsInt(bytes, off) ==
    IF off < 0 THEN << >>
    ELSE <<bytes[off + 3] + 256 * (IF bytes[off + 4] >= 128 THEN bytes[off + 4] - 256
                                                           ELSE bytes[off + 4]),
           bytes[off + 1] + 256 * bytes[off + 2]>>

\* readAsUint at offset off: readAsInt() >>> 0, and NaN >>> 0 is 0
readAsUint(bytes, off) ==
    IF readAsInt(bytes, off) = << >> THEN <<0, 0>> ELSE ToUint32(readAsInt(bytes, off))

\* subarray, were the view taken from the start of the buffer
subarray_FromStart(bytes, off, length) == SubSeq(bytes, 1, length)

\* subarray(length) at offset off, the view as its bytes
subarray(bytes, off, length) == SubSeq(bytes, off + 1, off + length)

\* cursorCall, were the offset setter to accept every value
cursorCall_AnyOffset(cursor, op, arg) ==
    IF op = "moveTo"
    THEN [cursor |-> [cursor EXCEPT !.offset = arg], threw |-> FALSE, reason |-> << >>,
          ret |-> << >>]
    ELSE [cursor |-> cursor, threw |-> FALSE, reason |-> << >>, ret |-> << >>]

\* one method call on a ByteArrayCursor object, cursor = [offset, bytes]: the cursor
\* it leaves, whether it threw, and what it returned.
\*  - read and write are this.bytes[this.offset++] (lines 616, 624): the setter runs
\*    first and throws when offset + 1 > length, so of the n bytes a method reads or
\*    writes the first length - offset are done before it throws; an element at a
\*    negative index is undefined when read and is not stored when written;
\*  - subarray (lines 677-681) takes the view, then adds length to the offset;
\*  - set (lines 687-694) checks the end first; TypedArray.set throws a RangeError
\*    for a negative offset;
\*  - moveTo (lines 700-702) is the setter (lines 600-603): v <= length is accepted.
cursorCall(cursor, op, arg) ==
    LET o == cursor.offset
        len == Len(cursor.bytes)
        invalid(v) == <<"Index is invalid: ", v>>
        done(c, ret) == [cursor |-> c, threw |-> FALSE, reason |-> << >>, ret |-> ret]
        thrown(c, reason) == [cursor |-> c, threw |-> TRUE, reason |-> reason, ret |-> << >>]
        \* n single reads: the offset moves on by one until the setter throws
        reads(n, ret) ==
            IF o + n > len THEN thrown([cursor EXCEPT !.offset = len], invalid(len + 1))
            ELSE done([cursor EXCEPT !.offset = o + n], ret)
        \* the single writes of the octets bs
        writes(bs) ==
            LET k == IF o + Len(bs) > len THEN len - o ELSE Len(bs)
                c == [offset |-> o + k,
                      bytes |-> [i \in 1..len |->
                                    IF i > o /\ i <= o + k THEN bs[i - o]
                                    ELSE cursor.bytes[i]]]
            IN  IF o + Len(bs) > len THEN thrown(c, invalid(len + 1)) ELSE done(c, << >>)
        \* the index TypedArray.subarray makes of a begin or end argument
        clamp(v) == IF v < 0 THEN (IF len + v < 0 THEN 0 ELSE len + v)
                    ELSE (IF v > len THEN len ELSE v)
    IN  CASE op = "read" ->
                reads(1, IF o < 0 \/ o >= len THEN << >> ELSE cursor.bytes[o + 1])
          [] op = "readAsUshort" ->
                reads(2, IF o < 0 \/ o + 2 > len THEN << >> ELSE readAsUshort(cursor.bytes, o))
          [] op = "readAsInt" ->
                reads(4, IF o + 4 > len THEN << >> ELSE readAsInt(cursor.bytes, o))
          [] op = "readAsUint" ->
                reads(4, IF o + 4 > len THEN << >> ELSE readAsUint(cursor.bytes, o))
          [] op = "write" -> writes(<<arg % 256>>)
          [] op = "writeUshort" -> writes(writeUshort(arg))
          [] op = "writeInt" -> writes(writeInt(arg))
          [] op = "subarray" ->
                IF o + arg > len THEN thrown(cursor, invalid(o + arg))
                ELSE done([cursor EXCEPT !.offset = o + arg],
                          SubSeq(cursor.bytes, clamp(o) + 1, clamp(o + arg)))
          [] op = "set" ->
                IF len < Len(arg) + o THEN thrown(cursor, invalid(Len(arg) + o))
                ELSE IF o < 0 THEN thrown(cursor, "RangeError: offset is out of bounds")
                ELSE done([offset |-> Len(arg) + o,
                           bytes |-> [i \in 1..len |->
                                         IF i > o /\ i <= o + Len(arg) THEN arg[i - o]
                                         ELSE cursor.bytes[i]]],
                          << >>)
          [] op = "moveTo" ->
                IF arg <= len THEN done([cursor EXCEPT !.offset = arg], << >>)
                ELSE thrown(cursor, invalid(arg))

(***************************************************************************)
(* LocalFileHeader (src/zip.js 344-460)                                    *)
(***************************************************************************)
\* getFlag(i): (this.flags >> i & 1) === 1
getFlag(flags, i) == (flags \div 2 ^ i) % 2 = 1

\* setFlag(i, b): flags |= 1 << i, or flags &= ~(1 << i)
setFlag(flags, i, b) ==
    IF b THEN (IF getFlag(flags, i) THEN flags ELSE flags + 2 ^ i)
    ELSE (IF getFlag(flags, i) THEN flags - 2 ^ i ELSE flags)

hasDataDescriptor(header) == getFlag(header.flags, 3)

isUtf8(header) == getFlag(header.flags, 11)

isCentralDirectoryEncrypted(header) == getFlag(header.flags, 13)

\* new LocalFileHeader() at the time date; the byte arrays are undefined
NewLocalFileHeader(date) ==
    [signature |-> <<1027, 19280>>, versionNeeded |-> 20, flags |-> 1024, method |-> 8,
     lastModified |-> fromDate(date), crc32 |-> <<0, 0>>, compressedSize |-> <<0, 0>>,
     uncompressedSize |-> <<0, 0>>, fileNameBytes |-> << >>, extraFieldBytes |-> << >>]

\* LocalFileHeader.toBytes
LocalFileHeader_toBytes(h) ==
    writeInt(h.signature) \o writeUshort(h.versionNeeded) \o writeUshort(h.flags)
    \o writeUshort(h.method) \o writeInt(toInt(h.lastModified)) \o writeInt(h.crc32)
    \o writeInt(h.compressedSize) \o writeInt(h.uncompressedSize)
    \o writeUshort(Len(h.fileNameBytes)) \o writeUshort(Len(h.extraFieldBytes))
    \o h.fileNameBytes \o h.extraFieldBytes

\* LocalFileHeader.from(cursor) with the cursor at offset off:
\* the record and the offset it leaves, or the error a read or a subarray throws
LocalFileHeader_from(bytes, off) ==
    IF ~canAdvance(bytes, off, 30) THEN IndexIsInvalid
    ELSE LET fileNameLength == readAsUshort(bytes, off + 26)
             extraFieldLength == readAsUshort(bytes, off + 28)
         IN  IF ~canAdvance(bytes, off + 30, fileNameLength) THEN IndexIsInvalid
             ELSE IF ~canAdvance(bytes, off + 30 + fileNameLength, extraFieldLength)
                  THEN IndexIsInvalid
             ELSE [ok |-> TRUE,
                   offset |-> off + 30 + fileNameLength + extraFieldLength,
                   record |->
                     [signature |-> readAsUint(bytes, off),
                      versionNeeded |-> readAsUshort(bytes, off + 4),
                      flags |-> readAsUshort(bytes, off + 6),
                      method |-> readAsUshort(bytes, off + 8),
                      lastModified |-> fromInt(readAsUint(bytes, off + 10)),
                      crc32 |-> readAsUint(bytes, off + 14),
                      compressedSize |-> readAsUint(bytes, off + 18),
                      uncompressedSize |-> readAsUint(bytes, off + 22),
                      fileNameBytes |-> subarray(bytes, off + 30, fileNameLength),
                      extraFieldBytes |->
                          subarray(bytes, off + 30 + fileNameLength, extraFieldLength)]]

(***************************************************************************)
(* CentralDirectoryEntry (src/zip.js 466-531)                              *)
(***************************************************************************)
\* new CentralDirectoryEntry() at the time date; headerOffset is undefined
NewCentralDirectoryEntry(date) ==
    [signature |-> <<513, 19280>>, versionMadeBy |-> 20, versionNeeded |-> 20,
     flags |-> 1024, method |-> 8, lastModified |-> fromDate(date), crc32 |-> <<0, 0>>,
     compressedSize |-> <<0, 0>>, uncompressedSize |-> <<0, 0>>,
     diskIdStart |-> 0, internalAttributes |-> 0, externalAttributes |-> <<0, 0>>,
     headerOffset |-> << >>, fileNameBytes |-> << >>, extraFieldBytes |-> << >>,
     commentBytes |-> << >>]

\* CentralDirectoryEntry.toBytes
CentralDirectoryEntry_toBytes(e) ==
    writeInt(e.signature) \o writeUshort(e.versionMadeBy) \o writeUshort(e.versionNeeded)
    \o writeUshort(e.flags) \o writeUshort(e.method) \o writeInt(toInt(e.lastModified))
    \o writeInt(e.crc32) \o writeInt(e.compressedSize) \o writeInt(e.uncompressedSize)
    \o writeUshort(Len(e.fileNameBytes)) \o writeUshort(Len(e.extraFieldBytes))
    \o writeUshort(Len(e.commentBytes)) \o writeUshort(e.diskIdStart)
    \o writeUshort(e.internalAttributes) \o writeInt(e.externalAttributes)
    \o writeInt(e.headerOffset)
    \o e.fileNameBytes \o e.extraFieldBytes \o e.commentBytes

\* CentralDirectoryEntry.from(cursor) with the cursor at offset off
CentralDirectoryEntry_from(bytes, off) ==
    IF ~canAdvance(bytes, off, 46) THEN IndexIsInvalid
    ELSE LET fileNameLength == readAsUshort(bytes, off + 28)
             extraFieldLength == readAsUshort(bytes, off + 30)
             commentLength == readAsUshort(bytes, off + 32)
             nameAt == off + 46
             extraAt == nameAt + fileNameLength
             commentAt == extraAt + extraFieldLength
         IN  IF ~canAdvance(bytes, nameAt, fileNameLength) THEN IndexIsInvalid
             ELSE IF ~canAdvance(bytes, extraAt, extraFieldLength) THEN IndexIsInvalid
             ELSE IF ~canAdvance(bytes, commentAt, commentLength) THEN IndexIsInvalid
             ELSE [ok |-> TRUE,
                   offset |-> commentAt + commentLength,
                   record |->
                     [signature |-> readAsUint(bytes, off),
                      versionMadeBy |-> readAsUshort(bytes, off + 4),
                      versionNeeded |-> readAsUshort(bytes, off + 6),
                      flags |-> readAsUshort(bytes, off + 8),
                      method |-> readAsUshort(bytes, off + 10),
                      lastModified |-> fromInt(readAsUint(bytes, off + 12)),
                      crc32 |-> readAsUint(bytes, off + 16),
                      compressedSize |-> readAsUint(bytes, off + 20),
                      uncompressedSize |-> readAsUint(bytes, off + 24),
                      diskIdStart |-> readAsUshort(bytes, off + 34),
                      internalAttributes |-> readAsUshort(bytes, off + 36),
                      externalAttributes |-> readAsUint(bytes, off + 38),
                      headerOffset |-> readAsUint(bytes, off + 42),
                      fileNameBytes |-> subarray(bytes, nameAt, fileNameLength),
                      extraFieldBytes |-> subarray(bytes, extraAt, extraFieldLength),
                      commentBytes |-> subarray(bytes, commentAt, commentLength)]]

(***************************************************************************)
(* EndOfCentralDirectoryRecord (src/zip.js 537-581)                        *)
(***************************************************************************)
\* new EndOfCentralDirectoryRecord()
NewEndOfCentralDirectoryRecord ==
    [signature |-> <<1541, 19280>>, diskId |-> 0, firstDiskId |-> 0, numOfFiles |-> 1,
     totalNumOfFiles |-> 0, cdSize |-> << >>, cdOffset |-> << >>, commentBytes |-> << >>]

\* EndOfCentralDirectoryRecord.toBytes
EndOfCentralDirectoryRecord_toBytes(r) ==
    writeInt(r.signature) \o writeUshort(r.diskId) \o writeUshort(r.firstDiskId)
    \o writeUshort(r.numOfFiles) \o writeUshort(r.totalNumOfFiles)
    \o writeInt(r.cdSize) \o writeInt(r.cdOffset)
    \o writeUshort(Len(r.commentBytes)) \o r.commentBytes

\* EndOfCentralDirectoryRecord.from(cursor) with the cursor at offset off (-1 allowed)
EndOfCentralDirectoryRecord_from(bytes, off) ==
    IF ~canAdvance(bytes, off, 22) THEN IndexIsInvalid
    ELSE LET commentLength == readAsUshort(bytes, off + 20)
         IN  IF ~canAdvance(bytes, off + 22, commentLength) THEN IndexIsInvalid
             ELSE [ok |-> TRUE,
                   offset |-> off + 22 + commentLength,
                   record |->
                     [signature |-> readAsUint(bytes, off),
                      diskId |-> readAsUshort(bytes, off + 4),
                      firstDiskId |-> readAsUshort(bytes, off + 6),
                      numOfFiles |-> readAsUshort(bytes, off + 8),
                      totalNumOfFiles |-> readAsUshort(bytes, off + 10),
                      cdSize |-> readAsUint(bytes, off + 12),
                      cdOffset |-> readAsUint(bytes, off + 16),
                      commentBytes |-> subarray(bytes, off + 22, commentLength)]]

(***************************************************************************)
(* The host's raw deflate service (CompressionStream / DecompressionStream *)
(* 'deflate-raw').  The codec only needs decompress(compress(x)) = x; the  *)
(* stand-in is the one-stored-block encoding of RFC 1951: 01, LEN, NLEN,   *)
(* then the bytes, which every inflater decodes.                           *)
(***************************************************************************)
Compress(bytes) ==
    <<1>> \o writeUshort(Len(bytes)) \o writeUshort(65535 - Len(bytes)) \o bytes

Decompress(bytes) ==
    IF Len(bytes) >= 5 /\ bytes[1] = 1
       /\ readAsUshort(bytes, 1) = Len(bytes) - 5
       /\ readAsUshort(bytes, 3) = 65535 - readAsUshort(bytes, 1)
    THEN [ok |-> TRUE, bytes |-> SubSeq(bytes, 6, Len(bytes))]
    ELSE [ok |-> FALSE, bytes |-> << >>]

(***************************************************************************)
(* Builder (src/zip.js 159-274; the same code in src/unnamed/part_001      *)
(* 125-239)                                                                *)
(*                                                                         *)
(* A Builder is [centralDirectory, contents].  An options object is        *)
(* [filepath, method, lastModified, extraField, comment]; an absent method,*)
(* lastModified or extraField is << >> and a present one is <<value>>.     *)
(***************************************************************************)
\* options.lastModified ? new Date(options.lastModified) : new Date()
\* a timestamp of 0 is falsy
appendDate(options, now) ==
    IF options.lastModified = << >> \/ options.lastModified[1] = <<0, 0>>
    THEN now
    ELSE options.lastModified[1]

\* options.method ?? 8
appendMethod(options) == IF options.method = << >> THEN 8 ELSE options.method[1]

\* lines 198-213 of append: the header with everything but compressedSize
appendHeader(buf, options, now) ==
    [NewLocalFileHeader(now) EXCEPT
        !.versionNeeded = IF appendMethod(options) = 8 THEN 20 ELSE 10,
        !.method = appendMethod(options),
        !.lastModified = fromDate(appendDate(options, now)),
        !.flags = setFlag(@, 11, TRUE),
        !.fileNameBytes = TextEncode(options.filepath),
        !.extraFieldBytes = IF options.extraField = << >> THEN << >> ELSE options.extraField[1],
        !.crc32 = calc(buf),
        !.uncompressedSize = W(Len(buf))]

\* lines 198-213 of append: the directory entry with everything but compressedSize
appendEntry(buf, options, now) ==
    [NewCentralDirectoryEntry(now) EXCEPT
        !.versionNeeded = IF appendMethod(options) = 8 THEN 20 ELSE 10,
        !.versionMadeBy = 20,
        !.method = appendMethod(options),
        !.lastModified = fromDate(appendDate(options, now)),
        !.flags = setFlag(@, 11, TRUE),
        !.fileNameBytes = TextEncode(options.filepath),
        !.extraFieldBytes = IF options.extraField = << >> THEN << >> ELSE options.extraField[1],
        !.commentBytes = TextEncode(options.comment),
        !.crc32 = calc(buf),
        !.uncompressedSize = W(Len(buf))]

\* appendBody, were the input compressed whatever the method
appendBody_Compressed(buf, method) == Compress(buf)

\* appendBody, were the input stored as it is whatever the method
appendBody_Raw(buf, method) == buf

\* the body append stores: the input for store, the compressed bytes for deflate
appendBody(buf, method) == IF method = 0 THEN buf ELSE Compress(buf)

\* what append pushes on centralDirectory (lines 216-217, 224-225)
appendPushEntry(centralDirectory, cd) == Append(centralDirectory, cd)

\* append, were the directory entry pushed before the method is looked at
append_PushFirst(builder, buf, options, now) ==
    LET method == appendMethod(options)
        body == appendBody(buf, method)
        cd == [appendEntry(buf, options, now) EXCEPT !.compressedSize = W(Len(body))]
        header == [appendHeader(buf, options, now) EXCEPT !.compressedSize = W(Len(body))]
        pushed == [builder EXCEPT
                      !.centralDirectory = appendPushEntry(builder.centralDirectory, cd)]
    IN  IF method = 0 \/ method = 8
        THEN [builder |->
                [pushed EXCEPT
                    !.contents = Append(builder.contents, [header |-> header, body |-> body])],
              threw |-> FALSE,
              ret |-> Len(builder.contents) + 1,
              reason |-> << >>]
        ELSE [builder |-> pushed,
              threw |-> TRUE,
              ret |-> 0,
              reason |-> <<"Unsupported compression method: ", method>>]

\* Builder.append(buf, opt) run to completion at the time now: the Builder it leaves
\* and the value the promise resolves to, or the error it rejects with.
\* The resolved value is what this.contents.push returns.
append(builder, buf, options, now) ==
    LET method == appendMethod(options)
        body == appendBody(buf, method)
        cd == [appendEntry(buf, options, now) EXCEPT !.compressedSize = W(Len(body))]
        header == [appendHeader(buf, options, now) EXCEPT !.compressedSize = W(Len(body))]
    IN  IF method = 0 \/ method = 8
        THEN [builder |->
                [centralDirectory |-> appendPushEntry(builder.centralDirectory, cd),
                 contents |-> Append(builder.contents, [header |-> header, body |-> body])],
              threw |-> FALSE,
              ret |-> Len(builder.contents) + 1,
              reason |-> << >>]
        ELSE [builder |-> builder,
              threw |-> TRUE,
              ret |-> 0,
              reason |-> <<"Unsupported compression method: ", method>>]

\* appendRejected, were the directory entry pushed before the compressed bytes are
\* awaited
appendRejected_PushFirst(builder, buf, options, now, error) ==
    IF appendMethod(options) = 8
    THEN [builder |->
            [builder EXCEPT
                !.centralDirectory =
                    appendPushEntry(builder.centralDirectory, appendEntry(buf, options, now))],
          threw |-> TRUE,
          ret |-> 0,
          reason |-> error]
    ELSE append(builder, buf, options, now)

\* Builder.append(buf, opt) when the promise of response.bytes() rejects with error
\* (line 222): the rejection leaves the function at the await, before
\* cd.compressedSize is set and before either push (lines 223-225); the methods
\* other than 8 do not reach the service
appendRejected(builder, buf, options, now, error) ==
    IF appendMethod(options) = 8
    THEN [builder |-> builder,
          threw |-> TRUE,
          ret |-> 0,
          reason |-> error]
    ELSE append(builder, buf, options, now)

\* splice, were every element from start on deleted whatever deleteCount is
splice_ToEnd(array, start, deleteCount) ==
    LET len == Len(array)
        from == IF start < 0 THEN (IF len + start < 0 THEN 0 ELSE len + start)
                ELSE (IF start > len THEN len ELSE start)
    IN  <<SubSeq(array, 1, from), SubSeq(array, from + 1, len)>>

\* Array.prototype.splice(start, deleteCount): <<the array left, the elements removed>>
splice(array, start, deleteCount) ==
    LET len == Len(array)
        from == IF start < 0 THEN (IF len + start < 0 THEN 0 ELSE len + start)
                ELSE (IF start > len THEN len ELSE start)
        n == IF deleteCount < 0 THEN 0
             ELSE (IF deleteCount > len - from THEN len - from ELSE deleteCount)
    IN  <<SubSeq(array, 1, from) \o SubSeq(array, from + n + 1, len),
          SubSeq(array, from + 1, from + n)>>

\* removeContentCount, were two content entries taken out
removeContentCount_Two(count) == 2

\* the number of content entries remove takes out (line 241)
removeContentCount(count) == 1

\* Builder.remove(index, count)
remove(builder, index, count) ==
    LET cd == splice(builder.centralDirectory, index, count)
    IN  [builder |->
            [centralDirectory |-> cd[1],
             contents |-> splice(builder.contents, index, removeContentCount(count))[1]],
         ret |-> [i \in 1..Len(cd[2]) |-> TextDecode(cd[2][i].fileNameBytes)]]

\* buildEntryLength, were the body left out of the sum
buildEntryLength_Header(content) == Len(LocalFileHeader_toBytes(content.header))

\* the bytes one content entry takes in the archive (line 261)
buildEntryLength(content) == Len(LocalFileHeader_toBytes(content.header)) + Len(content.body)

RECURSIVE buildOffset(_, _)
\* the value of offset when the loop of build reaches entry i (lines 254-262), i from 1
buildOffset(contents, i) ==
    IF i <= 1 THEN 0
    ELSE buildOffset(contents, i - 1) + buildEntryLength(contents[i - 1])

RECURSIVE buildLocalBytes(_, _)
\* the blob parts pushed by the loop for the entries i.. (line 260)
buildLocalBytes(contents, i) ==
    IF i > Len(contents) THEN << >>
    ELSE LocalFileHeader_toBytes(contents[i].header) \o contents[i].body
         \o buildLocalBytes(contents, i + 1)

RECURSIVE buildDirectoryBytes(_, _)
\* cdBytes, concatenated, for the entries i.. (line 263)
buildDirectoryBytes(centralDirectory, i) ==
    IF i > Len(centralDirectory) THEN << >>
    ELSE CentralDirectoryEntry_toBytes(centralDirectory[i])
         \o buildDirectoryBytes(centralDirectory, i + 1)

\* the file counts build records (lines 255, 266-267)
buildNumOfFiles(builder) == Len(builder.contents)

\* the EOCD of build (lines 265-270)
buildEocd(builder, centralDirectory, options) ==
    [NewEndOfCentralDirectoryRecord EXCEPT
        !.numOfFiles = buildNumOfFiles(builder),
        !.totalNumOfFiles = buildNumOfFiles(builder),
        !.cdSize = W(Len(buildDirectoryBytes(centralDirectory, 1))),
        !.cdOffset = W(buildOffset(builder.contents, Len(builder.contents) + 1)),
        !.commentBytes = TextEncode(options.comment)]

\* Builder.build(options): the loop assigns headerOffset to centralDirectory[i] for
\* every i < contents.length and throws a TypeError at the first i that has no
\* directory entry, leaving the earlier assignments in place.
\* options is [comment |-> string], the comment << >> when there is none.
build(builder, options) ==
    LET len == Len(builder.contents)
        n == Len(builder.centralDirectory)
        cd == [i \in 1..n |->
                 IF i <= len
                 THEN [builder.centralDirectory[i] EXCEPT
                          !.headerOffset = W(buildOffset(builder.contents, i))]
                 ELSE builder.centralDirectory[i]]
        after == [builder EXCEPT !.centralDirectory = cd]
    IN  IF n < len
        THEN [builder |-> after, threw |-> TRUE, blob |-> << >>,
              reason |-> <<"TypeError: cannot set headerOffset of undefined", n>>]
        ELSE [builder |-> after, threw |-> FALSE,
              blob |-> buildLocalBytes(builder.contents, 1)
                       \o buildDirectoryBytes(cd, 1)
                       \o EndOfCentralDirectoryRecord_toBytes(buildEocd(builder, cd, options)),
              reason |-> << >>]

(***************************************************************************)
(* onClickRename (src/sample/make.js 88-103)                               *)
(***************************************************************************)
\* Array.prototype.at(index) finds an element
atDefined(array, index) ==
    (index >= 0 /\ index < Len(array)) \/ (index < 0 /\ Len(array) + index >= 0)

\* the position (from 1) of array.at(index)
atPosition(array, index) == IF index >= 0 THEN index + 1 ELSE Len(array) + index + 1

\* the rename handler for table row index and the name the prompt returned
onClickRename(builder, index, newName) ==
    IF index < 0 \/ ~atDefined(builder.centralDirectory, index)
       \/ ~atDefined(builder.contents, index) \/ newName = << >>
    THEN builder
    ELSE [centralDirectory |->
             [builder.centralDirectory EXCEPT ![index + 1].fileNameBytes = TextEncode(newName)],
          contents |->
             [builder.contents EXCEPT ![index + 1].header.fileNameBytes = TextEncode(newName)]]

(***************************************************************************)
(* Extractor (src/zip.js 90-154)                                           *)
(***************************************************************************)
\* the EOCD signature 50 4B 05 06 starts at index i
signatureAt(bytes, i) ==
    /\ i + 4 <= Len(bytes)
    /\ bytes[i + 1] = 80 /\ bytes[i + 2] = 75 /\ bytes[i + 3] = 5 /\ bytes[i + 4] = 6

\* bytes.findLastIndex((_, i, a) => [0x50, 0x4b, 5, 6].every((v, j) => v === a[i + j]))
findLastIndex(bytes) ==
    IF \E i \in 0..(Len(bytes) - 1) : signatureAt(bytes, i)
    THEN CHOOSE i \in 0..(Len(bytes) - 1) :
            signatureAt(bytes, i) /\ \A j \in (i + 1)..(Len(bytes) - 1) : ~signatureAt(bytes, j)
    ELSE -1

\* the offset the zip.js constructor parses the EOCD at (lines 102-103): moveTo
\* accepts the -1 that findLastIndex returns when the signature is absent
zipEocdOffset(bytes) == findLastIndex(bytes)

RECURSIVE readDirectory(_, _, _)
\* n times CentralDirectoryEntry.from(cursor) from offset off (line 106)
readDirectory(bytes, off, n) ==
    IF n = 0 THEN [ok |-> TRUE, records |-> << >>]
    ELSE LET first == CentralDirectoryEntry_from(bytes, off)
         IN  IF ~first.ok THEN [ok |-> FALSE, records |-> << >>]
             ELSE LET rest == readDirectory(bytes, first.offset, n - 1)
                  IN  IF ~rest.ok THEN rest
                      ELSE [ok |-> TRUE, records |-> <<first.record>> \o rest.records]

\* the data descriptor read after the body that ends at offset off (lines 111-116):
\* the header with crc32, compressedSize and uncompressedSize replaced
readDataDescriptor(bytes, off, header) ==
    IF ~canAdvance(bytes, off, 4) THEN IndexIsInvalid
    ELSE LET at == IF readAsInt(bytes, off) = <<2055, 19280>> THEN off + 4 ELSE off
         IN  IF ~canAdvance(bytes, at, 12) THEN IndexIsInvalid
             ELSE [ok |-> TRUE,
                   record |-> [header EXCEPT
                                  !.crc32 = readAsInt(bytes, at),
                                  !.compressedSize = readAsInt(bytes, at + 4),
                                  !.uncompressedSize = readAsInt(bytes, at + 8)]]

\* the callback of this.centralDirectory.map (lines 107-118) for one directory record
readContent(bytes, record) ==
    IF ~offsetAccepts(bytes, record.headerOffset) THEN IndexIsInvalid
    ELSE LET parsed == LocalFileHeader_from(bytes, WVal(record.headerOffset))
         IN  IF ~parsed.ok THEN IndexIsInvalid
             ELSE IF ~WLeq(record.compressedSize, Len(bytes) - parsed.offset)
                  THEN IndexIsInvalid
             ELSE LET size == WVal(record.compressedSize)
                      body == subarray(bytes, parsed.offset, size)
                  IN  IF hasDataDescriptor(parsed.record)
                      THEN LET dd == readDataDescriptor(bytes, parsed.offset + size,
                                                        parsed.record)
                           IN  IF ~dd.ok THEN IndexIsInvalid
                               ELSE [ok |-> TRUE,
                                     content |-> [header |-> dd.record, body |-> body]]
                      ELSE [ok |-> TRUE,
                            content |-> [header |-> parsed.record, body |-> body]]

\* new Extractor(buffer) of zip.js: the object, or the error the constructor throws
Extractor(bytes) ==
    LET eocd == EndOfCentralDirectoryRecord_from(bytes, zipEocdOffset(bytes))
    IN  IF ~eocd.ok THEN [ok |-> FALSE, reason |-> eocd.reason]
        ELSE IF ~offsetAccepts(bytes, eocd.record.cdOffset)
             THEN [ok |-> FALSE, reason |-> IndexIsInvalid.reason]
        ELSE LET dir == readDirectory(bytes, WVal(eocd.record.cdOffset),
                                      eocd.record.numOfFiles)
             IN  IF ~dir.ok THEN [ok |-> FALSE, reason |-> IndexIsInvalid.reason]
                 ELSE LET got == [i \in 1..Len(dir.records) |->
                                     readContent(bytes, dir.records[i])]
                      IN  IF \E i \in 1..Len(got) : ~got[i].ok
                          THEN [ok |-> FALSE, reason |-> IndexIsInvalid.reason]
                          ELSE [ok |-> TRUE,
                                eocd |-> eocd.record,
                                centralDirectory |-> dir.records,
                                contents |-> [i \in 1..Len(got) |-> got[i].content]]

\* a Response: its status, its status text, and what reading its body gives
\* (hasBody FALSE for a null body; ok FALSE when the stream errors)
Response(status, statusText, hasBody, stream) ==
    [threw |-> FALSE, reason |-> << >>, status |-> status, statusText |-> statusText,
     hasBody |-> hasBody, stream |-> stream]

\* a call that throws new Error(reason)
Thrown(reason) ==
    [threw |-> TRUE, reason |-> reason, status |-> 0, statusText |-> << >>,
     hasBody |-> FALSE, stream |-> [ok |-> FALSE, bytes |-> << >>]]

\* pickDefault, were the body handed out as it is
pickDefault_Stream(method) ==
    Response(200, << >>, TRUE, [ok |-> TRUE, bytes |-> << >>])

\* what pick does with an entry whose method is neither 0 nor 8 (zip.js 139-141)
pickDefault(method) == Thrown(<<"Unsupported compression method: ", method>>)

\* Extractor.pick(index) of zip.js on the contents list
pick(contents, index) ==
    IF ~atDefined(contents, index) THEN Thrown(<<"No content at the index: ", index>>)
    ELSE LET content == contents[atPosition(contents, index)]
         IN  IF content.header.method = 0
             THEN Response(200, << >>, TRUE, [ok |-> TRUE, bytes |-> content.body])
             ELSE IF content.header.method = 8
                  THEN Response(200, << >>, TRUE, Decompress(content.body))
             ELSE pickDefault(content.header.method)

\* for (const content of zf) on an Extractor of zip.js: the class defines no
\* [Symbol.iterator], so the statement throws a TypeError before the first round
iterate(extractor) ==
    [threw |-> TRUE, reason |-> "TypeError: zf is not iterable", items |-> << >>]

\* new TextDecoder(encoding).decode(bytes), encoding an option: UTF-8 when it is
\* absent or 'utf-8'; for 'windows-1252' every byte is one code point, the bytes
\* 80..9F going by the table of the encoding
decode(encoding, bytes) ==
    IF encoding = << >> \/ encoding = <<"utf-8">> THEN TextDecode(bytes)
    ELSE LET high == <<8364, 129, 8218, 402, 8222, 8230, 8224, 8225, 710, 8240, 352,
                       8249, 338, 141, 381, 143, 144, 8216, 8217, 8220, 8221, 8226,
                       8211, 8212, 732, 8482, 353, 8250, 339, 157, 382, 376>>
         IN  [i \in 1..Len(bytes) |->
                 IF bytes[i] >= 128 /\ bytes[i] < 160 THEN high[bytes[i] - 127]
                 ELSE bytes[i]]

\* Extractor.getPaths(encoding) of zip.js (lines 150-153): one decoder for every
\* entry, applied to the name bytes of the local header
getPaths(contents, encoding) ==
    [i \in 1..Len(contents) |-> decode(encoding, contents[i].header.fileNameBytes)]

\* Extractor.getNames(encoding) of part_001 (lines 106-109): one decoder for every
\* entry, applied to the name bytes of the directory entry
getNames(cd, encoding) ==
    [i \in 1..Len(cd) |-> decode(encoding, cd[i].fileNameBytes)]

\* serviceCalls, were every deflated entry decompressed by the constructor
serviceCalls_Eager(op, contents, index) ==
    IF op = "extract"
    THEN IF \E i \in 1..Len(contents) : contents[i].header.method = 8
         THEN <<(CHOOSE i \in 1..Len(contents) : contents[i].header.method = 8) - 1>>
         ELSE << >>
    ELSE << >>

\* the entries, counted from 0, that a call hands to new DecompressionStream: the
\* constructors make none (zip.js 99-119, part_001 47-75); pick makes one in case 8,
\* for the entry contents.at(index) (zip.js 136-138, part_001 92-94)
serviceCalls(op, contents, index) ==
    IF op = "pick" /\ atDefined(contents, index)
       /\ contents[atPosition(contents, index)].header.method = 8
    THEN <<atPosition(contents, index) - 1>>
    ELSE << >>

(***************************************************************************)
(* The second variant of the module, src/unnamed/part_001: the records are *)
(* parsed through DataViews.  A view is an offset into the buffer and a    *)
(* length; reading beyond the view, or making a view or an array that does *)
(* not fit the buffer, throws a RangeError.  Each record carries its       *)
(* length.                                                                 *)
(***************************************************************************)
RangeError == [ok |-> FALSE, reason |-> "RangeError"]

\* new DataView(buffer, byteOffset, byteLength) / new Uint8Array(buffer, byteOffset,
\* length) can be made: byteOffset and length are TLC integers here
viewFits(bytes, byteOffset, length) ==
    byteOffset >= 0 /\ length >= 0 /\ byteOffset + length <= Len(bytes)

\* getUint16(p, true) of a view at byteOffset
getUint16(bytes, byteOffset, p) == bytes[byteOffset + p + 1] + 256 * bytes[byteOffset + p + 2]

\* getUint32(p, true) of a view at byteOffset, a number pair
getUint32(bytes, byteOffset, p) ==
    <<getUint16(bytes, byteOffset, p + 2), getUint16(bytes, byteOffset, p)>>

\* LocalFileHeader.from(view) of part_001 (lines 327-345)
LocalFileHeader_fromView(bytes, byteOffset, byteLength) ==
    IF byteLength < 30 THEN RangeError
    ELSE LET fileNameLength == getUint16(bytes, byteOffset, 26)
             extraFieldLength == getUint16(bytes, byteOffset, 28)
             offset == byteOffset + 30
         IN  IF ~viewFits(bytes, offset, fileNameLength) THEN RangeError
             ELSE IF ~viewFits(bytes, offset + fileNameLength, extraFieldLength)
                  THEN RangeError
             ELSE [ok |-> TRUE,
                   record |->
                     [signature |-> getUint32(bytes, byteOffset, 0),
                      versionNeeded |-> getUint16(bytes, byteOffset, 4),
                      flags |-> getUint16(bytes, byteOffset, 6),
                      method |-> getUint16(bytes, byteOffset, 8),
                      lastModified |-> fromInt(getUint32(bytes, byteOffset, 10)),
                      crc32 |-> getUint32(bytes, byteOffset, 14),
                      compressedSize |-> getUint32(bytes, byteOffset, 18),
                      uncompressedSize |-> getUint32(bytes, byteOffset, 22),
                      fileNameBytes |-> subarray(bytes, offset, fileNameLength),
                      extraFieldBytes |->
                          subarray(bytes, offset + fileNameLength, extraFieldLength),
                      length |-> 30 + fileNameLength + extraFieldLength]]

\* CentralDirectoryEntry.from(view) of part_001 (lines 442-466)
CentralDirectoryEntry_fromView(bytes, byteOffset, byteLength) ==
    IF byteLength < 46 THEN RangeError
    ELSE LET fLen == getUint16(bytes, byteOffset, 28)
             eLen == getUint16(bytes, byteOffset, 30)
             cLen == getUint16(bytes, byteOffset, 32)
             offset == byteOffset + 46
         IN  IF ~viewFits(bytes, offset, fLen) THEN RangeError
             ELSE IF ~viewFits(bytes, offset + fLen, eLen) THEN RangeError
             ELSE IF ~viewFits(bytes, offset + fLen + eLen, cLen) THEN RangeError
             ELSE [ok |-> TRUE,
                   record |->
                     [signature |-> getUint32(bytes, byteOffset, 0),
                      versionMadeBy |-> getUint16(bytes, byteOffset, 4),
                      versionNeeded |-> getUint16(bytes, byteOffset, 6),
                      flags |-> getUint16(bytes, byteOffset, 8),
                      method |-> getUint16(bytes, byteOffset, 10),
                      lastModified |-> fromInt(getUint32(bytes, byteOffset, 12)),
                      crc32 |-> getUint32(bytes, byteOffset, 16),
                      compressedSize |-> getUint32(bytes, byteOffset, 20),
                      uncompressedSize |-> getUint32(bytes, byteOffset, 24),
                      diskIdStart |-> getUint16(bytes, byteOffset, 34),
                      internalAttributes |-> getUint16(bytes, byteOffset, 36),
                      externalAttributes |-> getUint32(bytes, byteOffset, 38),
                      headerOffset |-> getUint32(bytes, byteOffset, 42),
                      fileNameBytes |-> subarray(bytes, offset, fLen),
                      extraFieldBytes |-> subarray(bytes, offset + fLen, eLen),
                      commentBytes |-> subarray(bytes, offset + fLen + eLen, cLen),
                      length |-> 46 + fLen + eLen + cLen]]

\* EndOfCentralDirectoryRecord.from(view) of part_001 (lines 510-524)
EndOfCentralDirectoryRecord_fromView(bytes, byteOffset, byteLength) ==
    IF byteLength < 22 THEN RangeError
    ELSE LET cLen == getUint16(bytes, byteOffset, 20)
             offset == byteOffset + 22
         IN  IF ~viewFits(bytes, offset, cLen) THEN RangeError
             ELSE [ok |-> TRUE,
                   record |->
                     [signature |-> getUint32(bytes, byteOffset, 0),
                      diskId |-> getUint16(bytes, byteOffset, 4),
                      firstDiskId |-> getUint16(bytes, byteOffset, 6),
                      numOfFiles |-> getUint16(bytes, byteOffset, 8),
                      totalNumOfFiles |-> getUint16(bytes, byteOffset, 10),
                      cdSize |-> getUint32(bytes, byteOffset, 12),
                      cdOffset |-> getUint32(bytes, byteOffset, 16),
                      commentBytes |-> subarray(bytes, offset, cLen),
                      length |-> 22 + cLen]]

RECURSIVE readDirectoryViews(_, _, _, _)
\* the callback of Array.from run n times from cdOffset (part_001 lines 53-58);
\* cdOffset is a number pair until the view over it has been made
readDirectoryViews(bytes, cdOffset, eocdOffset, n) ==
    IF n = 0 THEN [ok |-> TRUE, records |-> << >>]
    ELSE IF ~WLeq(cdOffset, eocdOffset) THEN [ok |-> FALSE, records |-> << >>]
    ELSE LET first == CentralDirectoryEntry_fromView(bytes, WVal(cdOffset),
                                                     eocdOffset - WVal(cdOffset))
         IN  IF ~first.ok THEN [ok |-> FALSE, records |-> << >>]
             ELSE LET rest == readDirectoryViews(bytes, W(WVal(cdOffset) + first.record.length),
                                                 eocdOffset, n - 1)
                  IN  IF ~rest.ok THEN rest
                      ELSE [ok |-> TRUE, records |-> <<first.record>> \o rest.records]

\* offsets.at(i + 1) || this.eocd.cdOffset, for i from 1 here
nextOffsetOf(cd, i, eocd) ==
    IF i + 1 <= Len(cd) /\ cd[i + 1].headerOffset # <<0, 0>>
    THEN cd[i + 1].headerOffset
    ELSE eocd.cdOffset

\* one round of the loop of part_001 lines 60-74 for directory entry i (from 1):
\* the directory entry as the round leaves it and the content it pushes
readContentView(bytes, cd, i, eocd) ==
    LET thisOffset == cd[i].headerOffset
        nextOffset == nextOffsetOf(cd, i, eocd)
    IN  IF ~WLeq(nextOffset, Len(bytes)) \/ ~WLeq(thisOffset, WVal(nextOffset))
        THEN RangeError
        ELSE LET parsed == LocalFileHeader_fromView(bytes, WVal(thisOffset),
                                                    WVal(nextOffset) - WVal(thisOffset))
                 at == WVal(nextOffset) - 12
             IN  IF ~parsed.ok THEN RangeError
                 ELSE IF hasDataDescriptor(parsed.record)
                         /\ isCentralDirectoryEncrypted(parsed.record)
                         /\ (~viewFits(bytes, at, 48) \/ at % 4 # 0)
                      THEN RangeError
                 ELSE LET entry ==
                            IF hasDataDescriptor(parsed.record)
                               /\ isCentralDirectoryEncrypted(parsed.record)
                            THEN [cd[i] EXCEPT
                                     !.crc32 = getUint32(bytes, at, 4),
                                     !.compressedSize = getUint32(bytes, at, 8),
                                     !.uncompressedSize = getUint32(bytes, at, 12)]
                            ELSE cd[i]
                          start == WVal(thisOffset) + parsed.record.length
                      IN  IF ~WLeq(entry.compressedSize, Len(bytes) - start)
                          THEN RangeError
                          ELSE [ok |-> TRUE,
                                entry |-> entry,
                                content |->
                                  [header |-> parsed.record,
                                   body |-> subarray(bytes, start,
                                                     WVal(entry.compressedSize))]]

\* what the part_001 constructor does when the signature is absent (line 50)
viewEocdMissing == [ok |-> FALSE,
                    reason |-> "Invalid format: End of central directory record is not found."]

\* new Extractor(buffer) of part_001: the object, or the error the constructor throws
ExtractorView(bytes) ==
    LET eocdOffset == findLastIndex(bytes)
    IN  IF eocdOffset < 0 THEN viewEocdMissing
        ELSE LET eocd == EndOfCentralDirectoryRecord_fromView(bytes, eocdOffset,
                                                              Len(bytes) - eocdOffset)
             IN  IF ~eocd.ok THEN [ok |-> FALSE, reason |-> eocd.reason]
                 ELSE LET dir == readDirectoryViews(bytes, eocd.record.cdOffset, eocdOffset,
                                                    eocd.record.numOfFiles)
                      IN  IF ~dir.ok THEN [ok |-> FALSE, reason |-> RangeError.reason]
                          ELSE LET got == [i \in 1..Len(dir.records) |->
                                              readContentView(bytes, dir.records, i,
                                                              eocd.record)]
                               IN  IF \E i \in 1..Len(got) : ~got[i].ok
                                   THEN [ok |-> FALSE, reason |-> RangeError.reason]
                                   ELSE [ok |-> TRUE,
                                         eocd |-> eocd.record,
                                         cd |-> [i \in 1..Len(got) |-> got[i].entry],
                                         contents |-> [i \in 1..Len(got) |-> got[i].content]]

\* what pick does with an entry whose method is neither 0 nor 8 (part_001 lines 95-97)
pickViewDefault(method) ==
    Response(418, <<"Unsupported compression method: ", method>>, FALSE,
             [ok |-> FALSE, bytes |-> << >>])

\* Extractor.pick(index) of part_001 on the contents list
pickView(contents, index) ==
    IF ~atDefined(contents, index) THEN Thrown(<<"No content at the index: ", index>>)
    ELSE LET content == contents[atPosition(contents, index)]
         IN  IF content.header.method = 0
             THEN Response(200, << >>, TRUE, [ok |-> TRUE, bytes |-> content.body])
             ELSE IF content.header.method = 8
                  THEN Response(200, << >>, TRUE, Decompress(content.body))
             ELSE pickViewDefault(content.header.method)

\* for (const content of zf) on an Extractor of part_001, run to the end: the items
\* that *[Symbol.iterator]() yields (lines 111-119)
iterateView(extractor) ==
    [threw |-> FALSE, reason |-> << >>,
     items |-> [i \in 1..Len(extractor.contents) |->
                   [entry |-> extractor.cd[i],
                    header |-> extractor.contents[i].header,
                    body |-> pickView(extractor.contents, i - 1)]]]

(***************************************************************************)
(* The state machine                                                       *)
(***************************************************************************)
VARIABLES
    centralDirectory,   \* Builder.centralDirectory
    contents,           \* Builder.contents
    inputs,             \* history: for each element of contents, the appended buffer and path
    now,                \* the host's clock, a Date
    call,               \* the last call made, its arguments and its outcome
    given,              \* the buffer the Extractors were last constructed from
    zf,                 \* new Extractor(buffer) of zip.js on that buffer
    zv,                 \* new Extractor(buffer) of part_001 on that buffer
    twin,               \* a second Builder and the append calls it has yet to receive
    suspended           \* the deflate appends that await their compressed bytes

vars == <<centralDirectory, contents, inputs, now, call, given, zf, zv, twin, suspended>>

\* bounds of the model
MaxEntries == 2
MaxTicks == 1

MaxLen == 3

\* the byte values of the sequences calc is called with
ByteValues == {0, 1, 97, 128, 255}

\* the byte sequences calc is called with
ByteSequences == UNION {[1..n -> ByteValues] : n \in 0..MaxLen}

\* 2001-09-09T01:46:40Z, a file's lastModified
FileTime == <<11574, 6400000>>

\* 2024-01-01T01:00:00Z, the clock at the start
StartTime == <<19723, 3600000>>

NoOptions == [filepath |-> << >>, method |-> << >>, lastModified |-> << >>,
              extraField |-> << >>, comment |-> << >>]

\* the errors the promise of response.bytes() rejects with when the compression
\* stream fails
ServiceErrors == {"TypeError: compression failed", "RangeError: out of memory"}

\* the append calls the model makes: (buf, opt)
AppendCalls ==
    { \* append(buf, 'a'): the string overload, deflate by default, the time now;
      \* the body holds the EOCD signature
      [buf |-> <<80, 75, 5, 6>>, options |-> [NoOptions EXCEPT !.filepath = <<97>>]],
      \* store, explicit time, the path U+00E9 'b' (three name bytes)
      [buf |-> <<104, 105>>,
       options |-> [NoOptions EXCEPT !.filepath = <<233, 98>>, !.method = <<0>>,
                                     !.lastModified = <<FileTime>>]],
      \* an empty file stored with extra field and comment, lastModified 0
      [buf |-> << >>,
       options |-> [NoOptions EXCEPT !.filepath = <<99>>, !.method = <<0>>,
                                     !.lastModified = <<(<<0, 0>>)>>,
                                     !.extraField = <<(<<7, 0, 0, 0>>)>>,
                                     !.comment = <<35>>]],
      \* methods that are neither store nor deflate
      [buf |-> <<97>>,
       options |-> [NoOptions EXCEPT !.filepath = <<100>>, !.method = <<1>>]],
      [buf |-> << >>,
       options |-> [NoOptions EXCEPT !.filepath = <<100>>, !.method = <<12>>,
                                     !.lastModified = <<FileTime>>]] }

\* remove(index) is remove(index, 1)
RemoveIndexes == 0..(MaxEntries - 1)
RemoveCounts == 0..2

\* the names the rename prompt returns; the empty one stands for a cancelled prompt
NewNames == {<< >>, <<122, 233>>}

\* build(), and build({comment}) with a comment
BuildOptions == {[comment |-> << >>], [comment |-> <<104, 105>>]}

\* the indexes pick is called with
PickIndexes == (0 - MaxEntries - 1)..MaxEntries

\* the append calls made on two Builders: each names its lastModified
TwinCalls ==
    {c \in AppendCalls : c.options.lastModified # << >>}
    \cup {[buf |-> <<104, 105>>,
           options |-> [NoOptions EXCEPT !.filepath = <<97>>, !.method = <<8>>,
                                         !.lastModified = <<FileTime>>]]}

NewBuilder == [centralDirectory |-> << >>, contents |-> << >>]

TheBuilder == [centralDirectory |-> centralDirectory, contents |-> contents]

TheTwin == [centralDirectory |-> twin.centralDirectory, contents |-> twin.contents]

\* no Extractor has been constructed
NoExtractor == [ok |-> FALSE, reason |-> "not constructed"]

\* new Builder().build() : the archive of no entries, 22 bytes
EmptyArchive == build(NewBuilder, [comment |-> << >>]).blob

\* the archive of one stored entry 'hi' named by three bytes: the local header at 0,
\* the directory record at 30 + 3 + 2
StoredArchive ==
    build(append(NewBuilder, <<104, 105>>,
                 [NoOptions EXCEPT !.filepath = <<233, 98>>, !.method = <<0>>,
                                   !.lastModified = <<FileTime>>],
                 StartTime).builder,
          [comment |-> << >>]).blob

\* the last byte of the EOCD signature of an archive without comment changed from 06 to 07
AlteredSignature(archive) == [archive EXCEPT ![Len(archive) - 22 + 4] = 7]

\* the method of the one entry of StoredArchive changed in the local header and in
\* the directory record
AlteredMethod(method) == [StoredArchive EXCEPT ![9] = method, ![35 + 11] = method]

\* an archive of two entries: 'hi' stored and [97, 98] deflated as 'a', the method of
\* the first changed to 12 in its local header and in its directory record
MixedArchive ==
    LET first == append(NewBuilder, <<104, 105>>,
                        [NoOptions EXCEPT !.filepath = <<233, 98>>, !.method = <<0>>,
                                          !.lastModified = <<FileTime>>],
                        StartTime).builder
        both == append(first, <<97, 98>>, [NoOptions EXCEPT !.filepath = <<97>>],
                       StartTime).builder
        archive == build(both, [comment |-> << >>]).blob
        at == Len(buildLocalBytes(both.contents, 1))
    IN  [archive EXCEPT ![9] = 12, ![at + 11] = 12]

\* the archive of the one stored entry 'hi' written with a data descriptor: flag bit
\* 3 set in the local header and the directory record, crc32 and sizes 0 in the
\* local header, and after the body the crc32 and the two sizes, with the signature
\* 50 4B 07 08 before them (16 bytes) or without it (12 bytes)
DescriptorArchive(withSignature) ==
    LET made == append(NewBuilder, <<104, 105>>,
                       [NoOptions EXCEPT !.filepath = <<233, 98>>, !.method = <<0>>,
                                         !.lastModified = <<FileTime>>],
                       StartTime).builder
        cd == made.centralDirectory[1]
        descriptor == (IF withSignature THEN writeInt(<<2055, 19280>>) ELSE << >>)
                      \o writeInt(cd.crc32) \o writeInt(cd.compressedSize)
                      \o writeInt(cd.uncompressedSize)
        header == [made.contents[1].header EXCEPT
                      !.flags = setFlag(@, 3, TRUE), !.crc32 = <<0, 0>>,
                      !.compressedSize = <<0, 0>>, !.uncompressedSize = <<0, 0>>]
    IN  build([centralDirectory |-> <<[cd EXCEPT !.flags = setFlag(@, 3, TRUE)]>>,
               contents |-> <<[header |-> header,
                               body |-> made.contents[1].body \o descriptor]>>],
              [comment |-> << >>]).blob

\* buffers that no Builder of this model returns
GivenBuffers ==
    { [i \in 1..21 |-> 0],
      MixedArchive,
      <<80, 75>>,
      AlteredSignature(EmptyArchive),
      AlteredSignature(StoredArchive),
      AlteredMethod(12),
      AlteredMethod(1) }

Init ==
    /\ centralDirectory = << >>
    /\ contents = << >>
    /\ inputs = << >>
    /\ now = StartTime
    /\ call = [op |-> "none"]
    /\ given = [buffer |-> << >>, built |-> FALSE, inputs |-> << >>]
    /\ zf = NoExtractor
    /\ zv = NoExtractor
    /\ twin = [centralDirectory |-> << >>, contents |-> << >>, pending |-> << >>]
    /\ suspended = << >>

\* time passes: the clock moves by two seconds
Tick ==
    /\ now[2] < StartTime[2] + MaxTicks * 2000
    /\ now' = <<now[1], now[2] + 2000>>
    /\ call' = [op |-> "tick"]
    /\ UNCHANGED <<centralDirectory, contents, inputs, given, zf, zv, twin, suspended>>

\* await builder.append(c.buf, c.options)
AppendCall(c) ==
    /\ Len(contents) < MaxEntries
    /\ Len(centralDirectory) < MaxEntries
    /\ \E r \in {append(TheBuilder, c.buf, c.options, now)} :
        /\ centralDirectory' = r.builder.centralDirectory
        /\ contents' = r.builder.contents
        /\ inputs' = IF r.threw THEN inputs
                     ELSE Append(inputs, [buf |-> c.buf, filepath |-> c.options.filepath])
        /\ call' = [op |-> "append", buf |-> c.buf, options |-> c.options,
                    threw |-> r.threw, ret |-> r.ret, reason |-> r.reason,
                    service |-> << >>]
        /\ UNCHANGED <<now, given, zf, zv, twin, suspended>>

\* await builder.append(c.buf, c.options) with method deflate, the compression
\* service failing with error while the call is suspended
AppendRejectedCall(c, error) ==
    /\ appendMethod(c.options) = 8
    /\ Len(contents) < MaxEntries
    /\ Len(centralDirectory) < MaxEntries
    /\ \E r \in {appendRejected(TheBuilder, c.buf, c.options, now, error)} :
        /\ centralDirectory' = r.builder.centralDirectory
        /\ contents' = r.builder.contents
        /\ call' = [op |-> "append", buf |-> c.buf, options |-> c.options,
                    threw |-> r.threw, ret |-> r.ret, reason |-> r.reason,
                    service |-> <<error>>]
        /\ UNCHANGED <<inputs, now, given, zf, zv, twin, suspended>>

\* builder.remove(index, count)
RemoveCall(index, count) ==
    \E r \in {remove(TheBuilder, index, count)} :
        /\ centralDirectory' = r.builder.centralDirectory
        /\ contents' = r.builder.contents
        /\ inputs' = splice(inputs, index, 1)[1]
        /\ call' = [op |-> "remove", index |-> index, count |-> count, ret |-> r.ret]
        /\ UNCHANGED <<now, given, zf, zv, twin, suspended>>

\* a click on the rename button of row index, the prompt answered with newName
RenameCall(index, newName) ==
    /\ index < Len(centralDirectory)
    /\ \E b \in {onClickRename(TheBuilder, index, newName)} :
        /\ centralDirectory' = b.centralDirectory
        /\ contents' = b.contents
        /\ call' = [op |-> "rename", index |-> index, newName |-> newName]
        /\ UNCHANGED <<inputs, now, given, zf, zv, twin, suspended>>

\* builder.build(options)
BuildCall(options) ==
    \E r \in {build(TheBuilder, options)} :
        /\ centralDirectory' = r.builder.centralDirectory
        /\ contents' = r.builder.contents
        /\ call' = [op |-> "build", options |-> options, threw |-> r.threw,
                    blob |-> r.blob, reason |-> r.reason]
        /\ UNCHANGED <<inputs, now, given, zf, zv, twin, suspended>>

\* new Extractor(buffer) in both variants
construct(buffer, built) ==
    /\ given' = [buffer |-> buffer, built |-> built,
                 inputs |-> IF built THEN inputs ELSE << >>]
    /\ zf' = Extractor(buffer)
    /\ zv' = ExtractorView(buffer)
    /\ call' = [op |-> "extract",
                decompress |->
                    serviceCalls("extract", IF zf'.ok THEN zf'.contents ELSE << >>, 0)
                    \o serviceCalls("extract", IF zv'.ok THEN zv'.contents ELSE << >>, 0)]
    /\ UNCHANGED <<centralDirectory, contents, inputs, now, twin, suspended>>

\* new Extractor(await blob.arrayBuffer()) on the blob build has just returned
ExtractBuilt ==
    /\ call.op = "build"
    /\ ~call.threw
    /\ construct(call.blob, TRUE)

\* new Extractor(buffer) on a buffer from elsewhere
ExtractGiven(buffer) == construct(buffer, FALSE)

\* the call before was a pick that threw or answered with status 418
afterFailure == call.op = "pick" /\ (call.ret.threw \/ call.ret.status = 418)

\* zf.pick(index), were the contents list given up when the pick fails
PickCall_GiveUp(index) ==
    /\ zf.ok
    /\ \E r \in {pick(zf.contents, index)} :
          /\ call' = [op |-> "pick", variant |-> "zip.js", index |-> index, ret |-> r,
                      afterFailure |-> afterFailure,
                      decompress |-> serviceCalls("pick", zf.contents, index)]
          /\ zf' = IF r.threw THEN [zf EXCEPT !.contents = << >>] ELSE zf
    /\ UNCHANGED <<centralDirectory, contents, inputs, now, given, zv, twin, suspended>>

\* zf.pick(index) on the Extractor of zip.js: pick reads this.contents and writes
\* no field of the Extractor (lines 126-143)
PickCall(index) ==
    /\ zf.ok
    /\ call' = [op |-> "pick", variant |-> "zip.js", index |-> index,
                ret |-> pick(zf.contents, index), afterFailure |-> afterFailure,
                decompress |-> serviceCalls("pick", zf.contents, index)]
    /\ UNCHANGED <<centralDirectory, contents, inputs, now, given, zf, zv, twin, suspended>>

\* pick(index) on the Extractor of part_001
PickViewCall(index) ==
    /\ zv.ok
    /\ call' = [op |-> "pick", variant |-> "part_001", index |-> index,
                ret |-> pickView(zv.contents, index), afterFailure |-> afterFailure,
                decompress |-> serviceCalls("pick", zv.contents, index)]
    /\ UNCHANGED <<centralDirectory, contents, inputs, now, given, zf, zv, twin, suspended>>

\* for (const content of zf) { ... } on the Extractor of zip.js
IterateCall ==
    /\ zf.ok
    /\ call' = [op |-> "iterate", variant |-> "zip.js", ret |-> iterate(zf)]
    /\ UNCHANGED <<centralDirectory, contents, inputs, now, given, zf, zv, twin, suspended>>

\* for (const content of zf) { ... } on the Extractor of part_001
IterateViewCall ==
    /\ zv.ok
    /\ call' = [op |-> "iterate", variant |-> "part_001", ret |-> iterateView(zv)]
    /\ UNCHANGED <<centralDirectory, contents, inputs, now, given, zf, zv, twin, suspended>>

\* await builder.append(c.buf, c.options) on the first of two Builders; the second
\* is to receive the same call before the first receives another
TwinFirstAppend(c) ==
    /\ Len(contents) < MaxEntries
    /\ twin.pending = << >>
    /\ \E r \in {append(TheBuilder, c.buf, c.options, now)} :
        /\ centralDirectory' = r.builder.centralDirectory
        /\ contents' = r.builder.contents
        /\ inputs' = IF r.threw THEN inputs
                     ELSE Append(inputs, [buf |-> c.buf, filepath |-> c.options.filepath])
        /\ call' = [op |-> "append", buf |-> c.buf, options |-> c.options,
                    threw |-> r.threw, ret |-> r.ret, reason |-> r.reason]
        /\ twin' = [twin EXCEPT !.pending = Append(@, c)]
        /\ UNCHANGED <<now, given, zf, zv, suspended>>

\* the second Builder receives the next call the first one received
TwinSecondAppend ==
    /\ twin.pending # << >>
    /\ \E r \in {append(TheTwin, Head(twin.pending).buf, Head(twin.pending).options, now)} :
        /\ twin' = [centralDirectory |-> r.builder.centralDirectory,
                    contents |-> r.builder.contents,
                    pending |-> Tail(twin.pending)]
        /\ call' = [op |-> "append", buf |-> Head(twin.pending).buf,
                    options |-> Head(twin.pending).options,
                    threw |-> r.threw, ret |-> r.ret, reason |-> r.reason]
        /\ UNCHANGED <<centralDirectory, contents, inputs, now, given, zf, zv, suspended>>

\* build(options) on both Builders once both have received the same calls
TwinBuild(options) ==
    /\ twin.pending = << >>
    /\ \E a \in {build(TheBuilder, options)}, b \in {build(TheTwin, options)} :
        /\ centralDirectory' = a.builder.centralDirectory
        /\ contents' = a.builder.contents
        /\ twin' = [twin EXCEPT !.centralDirectory = b.builder.centralDirectory,
                                !.contents = b.builder.contents]
        /\ call' = [op |-> "builds", options |-> options, first |-> a, second |-> b]
        /\ UNCHANGED <<inputs, now, given, zf, zv, suspended>>

\* builder.build(options) called twice with no operation in between
BuildTwice(options) ==
    \E a \in {build(TheBuilder, options)} :
        \E b \in {build(a.builder, options)} :
            /\ centralDirectory' = b.builder.centralDirectory
            /\ contents' = b.builder.contents
            /\ call' = [op |-> "twice", options |-> options, first |-> a, second |-> b]
            /\ UNCHANGED <<inputs, now, given, zf, zv, twin, suspended>>

\* the ZipDateTime objects toInt is called on: fields that fit the packed layout
DateTimes ==
    [year : {1980, 2043, 2044, 2107}, month : {0, 1, 12, 15}, day : {0, 1, 31},
     hour : {0, 23, 31}, minute : {0, 59, 63}, second : {0, 1, 58, 59}]

\* Init with a ZipDateTime object dt at hand
InitDate ==
    /\ centralDirectory = << >>
    /\ contents = << >>
    /\ inputs = << >>
    /\ now = StartTime
    /\ call \in {[op |-> "new", dt |-> dt] : dt \in DateTimes}
    /\ given = [buffer |-> << >>, built |-> FALSE, inputs |-> << >>]
    /\ zf = NoExtractor
    /\ zv = NoExtractor
    /\ twin = [centralDirectory |-> << >>, contents |-> << >>, pending |-> << >>]
    /\ suspended = << >>

\* dt.toInt()
ToIntCall ==
    /\ call.op = "new"
    /\ call' = [op |-> "toInt", dt |-> call.dt, ret |-> toInt(call.dt)]
    /\ UNCHANGED <<centralDirectory, contents, inputs, now, given, zf, zv, twin, suspended>>

\* ZipDateTime.fromInt(i) on the value toInt returned
FromIntCall ==
    /\ call.op = "toInt"
    /\ call' = [op |-> "fromInt", dt |-> call.dt, i |-> call.ret, ret |-> fromInt(call.ret)]
    /\ UNCHANGED <<centralDirectory, contents, inputs, now, given, zf, zv, twin, suspended>>

\* values of the 16 bit fields of a record and of its 32 bit fields, and the k-th
\* field's value made from one of them so that no two fields of a record agree
Numbers16 == {0, 258, 65530}
Numbers32 == {<<0, 0>>, <<1, 2>>, <<65535, 65520>>}
Field16(v, k) == v + k
Field32(w, k) == <<w[1], w[2] + k>>

\* values of the byte array fields of a record: empty, four bytes, 300 bytes
ByteFields == {<< >>, <<80, 75, 3, 4>>, [i \in 1..300 |-> i % 256]}

\* values of lastModified: two with an even second, one with an odd second
RecordTimes ==
    { [year |-> 1980, month |-> 0, day |-> 0, hour |-> 0, minute |-> 0, second |-> 0],
      [year |-> 2044, month |-> 12, day |-> 31, hour |-> 23, minute |-> 59, second |-> 58],
      [year |-> 2024, month |-> 1, day |-> 1, hour |-> 1, minute |-> 0, second |-> 59] }

\* LocalFileHeader objects with every field assigned
LocalFileHeaders ==
    { [signature |-> Field32(w, 0), versionNeeded |-> Field16(v, 0),
       flags |-> Field16(v, 1), method |-> Field16(v, 2), lastModified |-> dt,
       crc32 |-> Field32(w, 1), compressedSize |-> Field32(w, 2),
       uncompressedSize |-> Field32(w, 3), fileNameBytes |-> name,
       extraFieldBytes |-> extra] :
         v \in Numbers16, w \in Numbers32, dt \in RecordTimes,
         name \in ByteFields, extra \in {<< >>, <<7, 0, 0, 0>>} }

\* CentralDirectoryEntry objects with every field assigned
CentralDirectoryEntries ==
    { [signature |-> Field32(w, 0), versionMadeBy |-> Field16(v, 0),
       versionNeeded |-> Field16(v, 1), flags |-> Field16(v, 2), method |-> Field16(v, 3),
       lastModified |-> dt, crc32 |-> Field32(w, 1), compressedSize |-> Field32(w, 2),
       uncompressedSize |-> Field32(w, 3), diskIdStart |-> Field16(v, 4),
       internalAttributes |-> Field16(v, 5), externalAttributes |-> Field32(w, 4),
       headerOffset |-> Field32(w, 5), fileNameBytes |-> name,
       extraFieldBytes |-> extra, commentBytes |-> comment] :
         v \in Numbers16, w \in Numbers32, dt \in RecordTimes,
         name \in ByteFields, extra \in {<< >>, <<7, 0, 0, 0>>},
         comment \in {<< >>, <<35>>} }

\* EndOfCentralDirectoryRecord objects with every field assigned
EndOfCentralDirectoryRecords ==
    { [signature |-> Field32(w, 0), diskId |-> Field16(v, 0), firstDiskId |-> Field16(v, 1),
       numOfFiles |-> Field16(v, 2), totalNumOfFiles |-> Field16(v, 3),
       cdSize |-> Field32(w, 1), cdOffset |-> Field32(w, 2), commentBytes |-> comment] :
         v \in Numbers16, w \in Numbers32, comment \in ByteFields }

\* Init with a record of one of the three kinds at hand
InitRecord ==
    /\ centralDirectory = << >>
    /\ contents = << >>
    /\ inputs = << >>
    /\ now = StartTime
    /\ call \in {[op |-> "new", kind |-> "LocalFileHeader", record |-> x] :
                    x \in LocalFileHeaders}
                \cup {[op |-> "new", kind |-> "CentralDirectoryEntry", record |-> x] :
                         x \in CentralDirectoryEntries}
                \cup {[op |-> "new", kind |-> "EndOfCentralDirectoryRecord", record |-> x] :
                         x \in EndOfCentralDirectoryRecords}
    /\ given = [buffer |-> << >>, built |-> FALSE, inputs |-> << >>]
    /\ zf = NoExtractor
    /\ zv = NoExtractor
    /\ twin = [centralDirectory |-> << >>, contents |-> << >>, pending |-> << >>]
    /\ suspended = << >>

\* record.toBytes()
ToBytesCall ==
    /\ call.op = "new"
    /\ call' = [op |-> "toBytes", kind |-> call.kind, record |-> call.record,
                bytes |-> CASE call.kind = "LocalFileHeader" ->
                                   LocalFileHeader_toBytes(call.record)
                            [] call.kind = "CentralDirectoryEntry" ->
                                   CentralDirectoryEntry_toBytes(call.record)
                            [] OTHER -> EndOfCentralDirectoryRecord_toBytes(call.record)]
    /\ UNCHANGED <<centralDirectory, contents, inputs, now, given, zf, zv, twin, suspended>>

\* from(new ByteArrayCursor(bytes)) of the kind of the record, on the bytes toBytes
\* returned
FromCall ==
    /\ call.op = "toBytes"
    /\ call' = [op |-> "from", kind |-> call.kind, record |-> call.record,
                bytes |-> call.bytes,
                ret |-> CASE call.kind = "LocalFileHeader" ->
                                 LocalFileHeader_from(call.bytes, 0)
                          [] call.kind = "CentralDirectoryEntry" ->
                                 CentralDirectoryEntry_from(call.bytes, 0)
                          [] OTHER -> EndOfCentralDirectoryRecord_from(call.bytes, 0)]
    /\ UNCHANGED <<centralDirectory, contents, inputs, now, given, zf, zv, twin, suspended>>

\* crc32.calc(bytes) and Crc32.fmt of the result: first of the empty sequence,
\* then of the sequence of the call before with one more byte
CalcCall(bytes) ==
    /\ \/ call.op = "none" /\ bytes = << >>
       \/ /\ call.op = "calc"
          /\ Len(bytes) = Len(call.bytes) + 1
          /\ SubSeq(bytes, 1, Len(call.bytes)) = call.bytes
    /\ \E c \in {calc(bytes)} :
          call' = [op |-> "calc", bytes |-> bytes, ret |-> c, fmt |-> fmt(c)]
    /\ UNCHANGED <<centralDirectory, contents, inputs, now, given, zf, zv, twin, suspended>>

\* Init with an unsigned 32 bit value i at hand, as readAsUint returns it from the
\* four bytes of a lastModified field: the high and the low half each range over the
\* values where a field of the packed layout is 0, 1, one below its top or all ones
InitPattern ==
    /\ centralDirectory = << >>
    /\ contents = << >>
    /\ inputs = << >>
    /\ now = StartTime
    /\ call \in {[op |-> "readAsUint", i |-> <<hi, lo>>] :
                    hi \in {0, 1, 31, 33, 511, 512, 32767, 32768, 65535},
                    lo \in {0, 1, 31, 32, 2047, 2048, 32768, 63489, 65535}}
    /\ given = [buffer |-> << >>, built |-> FALSE, inputs |-> << >>]
    /\ zf = NoExtractor
    /\ zv = NoExtractor
    /\ twin = [centralDirectory |-> << >>, contents |-> << >>, pending |-> << >>]
    /\ suspended = << >>

\* ZipDateTime.fromInt(i).toInt(), and cursor.writeInt of the result: what a record
\* parsed by from (lastModified = fromInt(readAsUint())) serializes in toBytes
FromIntToIntCall ==
    /\ call.op = "readAsUint"
    /\ \E dt \in {fromInt(call.i)} :
          call' = [op |-> "fromIntToInt", i |-> call.i, dt |-> dt, ret |-> toInt(dt),
                   bytes |-> writeInt(toInt(dt))]
    /\ UNCHANGED <<centralDirectory, contents, inputs, now, given, zf, zv, twin, suspended>>

\* Init with new ByteArrayCursor(new Uint8Array(4)) at hand
InitCursor ==
    /\ centralDirectory = << >>
    /\ contents = << >>
    /\ inputs = << >>
    /\ now = StartTime
    /\ call = [op |-> "new", arg |-> << >>, threw |-> FALSE, reason |-> << >>,
               ret |-> << >>, before |-> [offset |-> 0, bytes |-> <<0, 0, 0, 0>>],
               cursor |-> [offset |-> 0, bytes |-> <<0, 0, 0, 0>>]]
    /\ given = [buffer |-> << >>, built |-> FALSE, inputs |-> << >>]
    /\ zf = NoExtractor
    /\ zv = NoExtractor
    /\ twin = [centralDirectory |-> << >>, contents |-> << >>, pending |-> << >>]
    /\ suspended = << >>

\* cursor.op(arg) on the cursor the call before left; the calls with a negative
\* argument are made while the offset is above -2
CursorCall(op, arg) ==
    /\ call.cursor.offset > -2
    /\ \E r \in {cursorCall(call.cursor, op, arg)} :
          call' = [op |-> op, arg |-> arg, threw |-> r.threw, reason |-> r.reason,
                   ret |-> r.ret, before |-> call.cursor, cursor |-> r.cursor]
    /\ UNCHANGED <<centralDirectory, contents, inputs, now, given, zf, zv, twin, suspended>>

\* zf.getPaths(encoding) of zip.js, or getNames(encoding) of part_001
GetPathsCall(variant, encoding) ==
    /\ IF variant = "zip.js" THEN zf.ok ELSE zv.ok
    /\ call' = [op |-> "getPaths", variant |-> variant, encoding |-> encoding,
                ret |-> IF variant = "zip.js" THEN getPaths(zf.contents, encoding)
                        ELSE getNames(zv.cd, encoding)]
    /\ UNCHANGED <<centralDirectory, contents, inputs, now, given, zf, zv, twin, suspended>>

\* new Uint8Array(buf)[0] = 0 by the caller, buf the ArrayBuffer it passed to the
\* append that made entry index.  append makes uncompressed = new Uint8Array(buf), a
\* view on buf and no copy (line 198); for store the body pushed is that view
\* (line 217), for deflate it is the array response.bytes() returned (line 225)
OverwriteCall(index) ==
    /\ index < Len(contents)
    /\ index < Len(inputs)
    /\ Len(inputs[index + 1].buf) > 0
    /\ contents' = [contents EXCEPT
                       ![index + 1] =
                           IF @.header.method = 0 THEN [@ EXCEPT !.body[1] = 0] ELSE @]
    /\ call' = [op |-> "overwrite", index |-> index]
    /\ UNCHANGED <<centralDirectory, inputs, now, given, zf, zv, twin, suspended>>

\* builder.append(c.buf, c.options) invoked, not awaited: the call runs up to its
\* first await.  With method 0 it pushes both elements and with an unsupported
\* method it throws, without suspending; with method 8 it has made cd and header
\* (lines 200-213) and is suspended at 'await response.bytes()' (line 222), the two
\* lists untouched.  invoked numbers the invocations that are on record.
AppendStart(c) ==
    /\ Len(contents) + Len(suspended) < MaxEntries
    /\ Len(centralDirectory) + Len(suspended) < MaxEntries
    /\ \E r \in {append(TheBuilder, c.buf, c.options, now)} :
        LET numbers == {inputs[i].invoked : i \in 1..Len(inputs)}
                       \cup {suspended[i].input.invoked : i \in 1..Len(suspended)}
            \* the invocations still on record renumbered from 1 in their order
            rank(n) == Cardinality({m \in numbers : m <= n})
            earlier == [i \in 1..Len(inputs) |-> [inputs[i] EXCEPT !.invoked = rank(@)]]
            waiting == [i \in 1..Len(suspended) |->
                           [suspended[i] EXCEPT !.input.invoked = rank(@)]]
            input == [buf |-> c.buf, filepath |-> c.options.filepath,
                      invoked |-> Cardinality(numbers) + 1]
        IN  /\ IF r.threw \/ appendMethod(c.options) # 8
               THEN /\ centralDirectory' = r.builder.centralDirectory
                    /\ contents' = r.builder.contents
                    /\ inputs' = IF r.threw THEN earlier ELSE Append(earlier, input)
                    /\ suspended' = waiting
               ELSE /\ suspended' =
                          Append(waiting,
                                 [cd |-> r.builder.centralDirectory[Len(centralDirectory) + 1],
                                  content |-> r.builder.contents[Len(contents) + 1],
                                  input |-> input])
                    /\ inputs' = earlier
                    /\ UNCHANGED <<centralDirectory, contents>>
            /\ call' = [op |-> "start", buf |-> c.buf, options |-> c.options,
                        threw |-> r.threw, invoked |-> input.invoked]
    /\ UNCHANGED <<now, given, zf, zv, twin>>

\* AppendResume, were only the directory entry pushed
AppendResume_DirectoryOnly(k) ==
    /\ k <= Len(suspended)
    /\ centralDirectory' = appendPushEntry(centralDirectory, suspended[k].cd)
    /\ suspended' = SubSeq(suspended, 1, k - 1) \o SubSeq(suspended, k + 1, Len(suspended))
    /\ call' = [op |-> "resume", invoked |-> suspended[k].input.invoked,
                ret |-> Len(contents)]
    /\ UNCHANGED <<contents, inputs, now, given, zf, zv, twin>>

\* the compressed bytes of the k-th suspended append arrive (the streams are
\* independent, so in any order) and the call runs to its end: it pushes cd, then
\* pushes { header, body } and resolves to what that push returns (lines 223-225)
AppendResume(k) ==
    /\ k <= Len(suspended)
    /\ centralDirectory' = appendPushEntry(centralDirectory, suspended[k].cd)
    /\ contents' = Append(contents, suspended[k].content)
    /\ inputs' = Append(inputs, suspended[k].input)
    /\ suspended' = SubSeq(suspended, 1, k - 1) \o SubSeq(suspended, k + 1, Len(suspended))
    /\ call' = [op |-> "resume", invoked |-> suspended[k].input.invoked,
                ret |-> Len(contents) + 1]
    /\ UNCHANGED <<now, given, zf, zv, twin>>

\* the Builder used through append, remove and build
Next ==
    \/ \E c \in AppendCalls : AppendCall(c)
    \/ \E c \in AppendCalls, error \in ServiceErrors : AppendRejectedCall(c, error)
    \/ \E index \in RemoveIndexes, count \in RemoveCounts : RemoveCall(index, count)
    \/ \E options \in BuildOptions : BuildCall(options)

Spec == Init /\ [][Next]_vars

\* the Builder as the sample page src/sample/make.js uses it: append, remove(index),
\* rename, build
NextPage ==
    \/ \E c \in AppendCalls : AppendCall(c)
    \/ \E index \in RemoveIndexes : RemoveCall(index, 1)
    \/ \E index \in 0..(MaxEntries - 1), newName \in NewNames : RenameCall(index, newName)
    \/ \E options \in BuildOptions : BuildCall(options)

SpecPage == Init /\ [][NextPage]_vars

\* archives built from appended entries, and buffers from elsewhere, extracted and
\* picked from in both variants
NextExtract ==
    \/ \E c \in AppendCalls : AppendCall(c)
    \/ \E options \in BuildOptions : BuildCall(options)
    \/ ExtractBuilt
    \/ \E buffer \in GivenBuffers : ExtractGiven(buffer)
    \/ \E index \in PickIndexes : PickCall(index)
    \/ \E index \in PickIndexes : PickViewCall(index)
    \/ IterateCall
    \/ IterateViewCall

SpecExtract == Init /\ [][NextExtract]_vars

\* two Builders given the same append calls while time passes, and builds repeated
NextTwin ==
    \/ Tick
    \/ \E c \in TwinCalls : TwinFirstAppend(c)
    \/ TwinSecondAppend
    \/ \E options \in BuildOptions : TwinBuild(options)
    \/ \E options \in BuildOptions : BuildTwice(options)

SpecTwin == Init /\ [][NextTwin]_vars

\* calc and fmt applied to byte sequences
NextCrc == \E bytes \in ByteSequences : CalcCall(bytes)

SpecCrc == Init /\ [][NextCrc]_vars

\* a ZipDateTime packed and unpacked
NextDate == ToIntCall \/ FromIntCall

SpecDate == InitDate /\ [][NextDate]_vars

\* a record serialized and parsed
NextRecord == ToBytesCall \/ FromCall

SpecRecord == InitRecord /\ [][NextRecord]_vars

\* a packed time unpacked and packed again
SpecPattern == InitPattern /\ [][FromIntToIntCall]_vars

\* the methods of a cursor over four bytes called in any order
SpecCursor ==
    InitCursor
    /\ [][\/ \E op \in {"read", "readAsUshort", "readAsInt", "readAsUint"} :
                CursorCall(op, << >>)
          \/ CursorCall("write", 7)
          \/ CursorCall("writeUshort", 2055)
          \/ CursorCall("writeInt", <<2055, 2055>>)
          \/ \E length \in {-1, 0, 2, 5} : CursorCall("subarray", length)
          \/ \E bytes \in {<< >>, <<8>>, <<7, 8, 7>>, <<7, 8, 7, 8, 7>>} :
                CursorCall("set", bytes)
          \/ \E index \in {-1, 0, 2, 4, 5} : CursorCall("moveTo", index)]_vars

\* archives from elsewhere, two of them with a data descriptor, extracted in both
\* variants, picked from and their paths listed
SpecGiven ==
    Init
    /\ [][\/ \E buffer \in GivenBuffers \cup {DescriptorArchive(TRUE), DescriptorArchive(FALSE)} :
                ExtractGiven(buffer)
          \/ \E index \in PickIndexes : PickCall(index)
          \/ \E index \in PickIndexes : PickViewCall(index)
          \/ \E variant \in {"zip.js", "part_001"},
                encoding \in {<< >>, <<"utf-8">>, <<"windows-1252">>} :
                GetPathsCall(variant, encoding)]_vars

\* a Builder appended to and built from while the caller writes to the buffers it
\* passed to append
SpecOwn ==
    Init
    /\ [][\/ \E c \in AppendCalls : AppendCall(c)
          \/ \E index \in RemoveIndexes : OverwriteCall(index)
          \/ \E options \in BuildOptions : BuildCall(options)]_vars

\* append calls that overlap on one Builder, with remove(index) and build between
\* their steps
SpecOverlap ==
    Init
    /\ [][\/ \E c \in AppendCalls : AppendStart(c)
          \/ \E k \in 1..MaxEntries : AppendResume(k)
          \/ \E index \in RemoveIndexes : RemoveCall(index, 1)
          \/ \E options \in BuildOptions : BuildCall(options)]_vars

(***************************************************************************)
(* Properties                                                              *)
(***************************************************************************)

\* C1: round trip.  Whenever the Extractor was constructed from the bytes build
\* returned for a Builder that entries were appended to (store or deflate), it
\* exposes as many entries as were appended, in the same order, with the file-name
\* bytes of the appended path and the uncompressedSize of the appended input, and
\* pick(i) yields the bytes of the i-th appended input; a pick made on it yielded
\* the input appended at that index.
C1_RoundTrip ==
    given.built =>
        /\ zf.ok
        /\ Len(zf.centralDirectory) = Len(given.inputs)
        /\ Len(zf.contents) = Len(given.inputs)
        /\ \A i \in 1..Len(given.inputs) :
            /\ zf.centralDirectory[i].fileNameBytes = TextEncode(given.inputs[i].filepath)
            /\ zf.contents[i].header.fileNameBytes = TextEncode(given.inputs[i].filepath)
            /\ zf.centralDirectory[i].uncompressedSize = W(Len(given.inputs[i].buf))
            /\ zf.contents[i].header.uncompressedSize = W(Len(given.inputs[i].buf))
            /\ ~pick(zf.contents, i - 1).threw
            /\ pick(zf.contents, i - 1).stream = [ok |-> TRUE, bytes |-> given.inputs[i].buf]
        /\ (call.op = "pick" /\ call.variant = "zip.js"
            /\ call.index \in 0..(Len(given.inputs) - 1))
           => call.ret.stream = [ok |-> TRUE, bytes |-> given.inputs[call.index + 1].buf]

\* a deflated entry and a stored entry were appended, the archive built and
\* extracted, and the second entry picked
C1_Witness ==
    /\ given.built
    /\ zf.ok
    /\ Len(given.inputs) = 2
    /\ Len(zf.contents) = 2
    /\ zf.contents[1].header.method = 8
    /\ zf.contents[2].header.method = 0
    /\ Len(given.inputs[2].buf) > 0
    /\ call.op = "pick"
    /\ call.variant = "zip.js"
    /\ call.index = 1

\* C2: in both variants, constructing an Extractor from a buffer in which the bytes
\* 50 4B 05 06 do not occur fails: no Extractor is produced.  (Any error counts
\* as the failure here.)
C2_MissingSignatureFails ==
    (call.op = "extract" /\ findLastIndex(given.buffer) < 0) => (~zf.ok /\ ~zv.ok)

\* zip.js made an Extractor of no entries from 21 zero bytes, which part_001
\* rejected as not having the signature
C2_Witness ==
    /\ call.op = "extract"
    /\ given.buffer = [i \in 1..21 |-> 0]
    /\ findLastIndex(given.buffer) < 0
    /\ zf.ok
    /\ zf.eocd.numOfFiles = 0
    /\ zf.contents = << >>
    /\ ~zv.ok
    /\ zv.reason = viewEocdMissing.reason

\* C3: pick(index) with an index outside [0, entry count) throws an error whose
\* reason names the index.
C3_PickOutOfRange ==
    (call.op = "pick"
     /\ call.index \notin
            0..(Len(IF call.variant = "zip.js" THEN zf.contents ELSE zv.contents) - 1))
    => (call.ret.threw /\ call.ret.reason = <<"No content at the index: ", call.index>>)

\* pick(-1) on the Extractor of a built archive of two entries returned the
\* content of the second entry
C3_Witness ==
    /\ call.op = "pick"
    /\ call.variant = "zip.js"
    /\ call.index = -1
    /\ given.built
    /\ Len(given.inputs) = 2
    /\ given.inputs[1].buf # given.inputs[2].buf
    /\ ~call.ret.threw
    /\ call.ret.stream = [ok |-> TRUE, bytes |-> given.inputs[2].buf]

\* C4: in both variants a pick that finds an entry goes by the method of the entry's
\* local header: for 0 the response streams the body bytes, for 8 it streams what
\* the decompression service makes of the body bytes, and for any other method the
\* caller gets no byte stream but an error naming the method: an Error thrown by
\* zip.js, a bodiless Response with status 418 and that status text by part_001.
C4_PickDispatch ==
    LET list == IF call.variant = "zip.js" THEN zf.contents ELSE zv.contents
    IN  (call.op = "pick" /\ atDefined(list, call.index)) =>
            LET content == list[atPosition(list, call.index)]
                method == content.header.method
                reason == <<"Unsupported compression method: ", method>>
            IN  /\ method = 0 =>
                    /\ ~call.ret.threw
                    /\ call.ret.status = 200
                    /\ call.ret.hasBody
                    /\ call.ret.stream = [ok |-> TRUE, bytes |-> content.body]
                /\ method = 8 =>
                    /\ ~call.ret.threw
                    /\ call.ret.status = 200
                    /\ call.ret.hasBody
                    /\ call.ret.stream = Decompress(content.body)
                /\ method \notin {0, 8} =>
                    /\ ~call.ret.hasBody
                    /\ ~call.ret.stream.ok
                    /\ \/ call.ret.threw /\ call.ret.reason = reason
                       \/ ~call.ret.threw /\ call.ret.status = 418
                          /\ call.ret.statusText = reason
                    /\ call.variant = "zip.js" => call.ret.threw
                    /\ call.variant = "part_001" => ~call.ret.threw

\* part_001 picked an entry whose method is 12
C4_Witness ==
    /\ call.op = "pick"
    /\ call.variant = "part_001"
    /\ zv.ok
    /\ Len(zv.contents) = 1
    /\ zv.contents[1].header.method = 12
    /\ call.index = 0
    /\ call.ret.status = 418

\* C5: an append whose method is neither 0 nor 8 throws an error naming the method
\* and leaves centralDirectory and contents as they were before the call.
C5_AppendUnsupported ==
    [][(call'.op = "append" /\ appendMethod(call'.options) \notin {0, 8}) =>
          /\ call'.threw
          /\ call'.reason = <<"Unsupported compression method: ", appendMethod(call'.options)>>
          /\ centralDirectory' = centralDirectory
          /\ contents' = contents]_vars

\* an append with method 12 has thrown on a Builder that holds an entry
C5_Witness ==
    /\ call.op = "append"
    /\ call.options.method = <<12>>
    /\ call.threw
    /\ Len(contents) = 1
    /\ Len(centralDirectory) = 1

\* C6: the value r a successful append resolves to is the index of the entry just
\* appended: right after the call centralDirectory[r] and contents[r] (counted
\* from 0) exist and are the new entry's directory record and (header, body) pair.
C6_AppendReturnsIndex ==
    (call.op = "append" /\ ~call.threw) =>
        /\ call.ret + 1 \in DOMAIN centralDirectory
        /\ call.ret + 1 \in DOMAIN contents
        /\ centralDirectory[call.ret + 1].fileNameBytes = TextEncode(call.options.filepath)
        /\ contents[call.ret + 1].header.fileNameBytes = TextEncode(call.options.filepath)
        /\ contents[call.ret + 1].body = appendBody(call.buf, appendMethod(call.options))

\* the first append on a new Builder resolved to 1, and the entry is at index 0
C6_Witness ==
    /\ call.op = "append"
    /\ ~call.threw
    /\ call.ret = 1
    /\ Len(centralDirectory) = 1
    /\ Len(contents) = 1
    /\ contents[1].body = appendBody(call.buf, appendMethod(call.options))

C8_EocdCounts ==
    (call.op = "build" /\ ~call.threw) =>
        LET at == Len(call.blob) - 22 - Len(TextEncode(call.options.comment))
        IN  /\ readAsUshort(call.blob, at + 8) = Len(centralDirectory)
            /\ readAsUshort(call.blob, at + 8) = Len(contents)
            /\ readAsUshort(call.blob, at + 10) = Len(centralDirectory)
            /\ readAsUshort(call.blob, at + 10) = Len(contents)
            /\ readAsUint(call.blob, at + 12) = W(Len(buildDirectoryBytes(centralDirectory, 1)))
            /\ readAsUint(call.blob, at + 16) = W(Len(buildLocalBytes(contents, 1)))
            /\ at = Len(buildLocalBytes(contents, 1))
                    + Len(buildDirectoryBytes(centralDirectory, 1))

\* build returned an archive with one directory record, no local header and the
\* file counts 0: the Builder was left so by remove(index, 0)
C8_Witness ==
    /\ call.op = "build"
    /\ ~call.threw
    /\ Len(centralDirectory) = 1
    /\ Len(contents) = 0
    /\ Len(call.blob) = Len(CentralDirectoryEntry_toBytes(centralDirectory[1])) + 22
                        + Len(TextEncode(call.options.comment))
    /\ readAsUshort(call.blob, Len(CentralDirectoryEntry_toBytes(centralDirectory[1])) + 8) = 0

RECURSIVE C9_LocalStart(_)
\* the sum over j < i of 30 + nameLength_j + extraLength_j + bodyLength_j, i from 1
C9_LocalStart(i) ==
    IF i <= 1 THEN 0
    ELSE C9_LocalStart(i - 1) + 30 + Len(contents[i - 1].header.fileNameBytes)
         + Len(contents[i - 1].header.extraFieldBytes) + Len(contents[i - 1].body)

RECURSIVE C9_DirectoryStart(_)
\* where directory record i starts in the archive: after the local entries and the
\* directory records before it, each 46 bytes and its name, extra field and comment
C9_DirectoryStart(i) ==
    IF i <= 1 THEN C9_LocalStart(Len(contents) + 1)
    ELSE C9_DirectoryStart(i - 1) + 46 + Len(centralDirectory[i - 1].fileNameBytes)
         + Len(centralDirectory[i - 1].extraFieldBytes)
         + Len(centralDirectory[i - 1].commentBytes)

\* C9: in every archive build returns after appends, remove(index) calls and
\* renames, the headerOffset written in directory record i is the sum over j < i
\* of 30 + nameLength_j + extraLength_j + bodyLength_j, and local header i begins
\* at that byte of the archive.
C9_HeaderOffsets ==
    (call.op = "build" /\ ~call.threw) =>
        /\ Len(centralDirectory) = Len(contents)
        /\ \A i \in 1..Len(contents) :
            LET pos == C9_LocalStart(i)
                rec == C9_DirectoryStart(i)
                name == contents[i].header.fileNameBytes
            IN  /\ SubSeq(call.blob, rec + 1, rec + 4) = <<80, 75, 1, 2>>
                /\ readAsUint(call.blob, rec + 42) = W(pos)
                /\ SubSeq(call.blob, pos + 1, pos + 4) = <<80, 75, 3, 4>>
                /\ readAsUshort(call.blob, pos + 26) = Len(name)
                /\ SubSeq(call.blob, pos + 31, pos + 30 + Len(name)) = name
                /\ centralDirectory[i].fileNameBytes = name

\* an archive of two entries was built after the first, a deflated one, was renamed
\* to a longer name
C9_Witness ==
    /\ call.op = "build"
    /\ ~call.threw
    /\ Len(contents) = 2
    /\ contents[1].header.method = 8
    /\ contents[1].header.fileNameBytes = TextEncode(<<122, 233>>)
    /\ centralDirectory[2].headerOffset = W(30 + 3 + Len(contents[1].body))

\* C10: two Builders that received the same append calls, each naming its
\* lastModified, and the same build options return the same bytes, and two builds
\* in a row on one Builder return the same bytes.
C10_Deterministic ==
    /\ call.op = "builds" =>
          /\ call.first.threw = call.second.threw
          /\ call.first.blob = call.second.blob
    /\ call.op = "twice" =>
          /\ call.first.threw = call.second.threw
          /\ call.first.blob = call.second.blob

\* two Builders that each received append(buf, {filepath, method: 0,
\* lastModified: 0, ...}), two seconds apart, built different archives
C10_Witness ==
    /\ call.op = "builds"
    /\ ~call.first.threw
    /\ ~call.second.threw
    /\ Len(contents) = 1
    /\ Len(twin.contents) = 1
    /\ contents[1].body = twin.contents[1].body
    /\ contents[1].header.fileNameBytes = twin.contents[1].header.fileNameBytes
    /\ contents[1].header.lastModified # twin.contents[1].header.lastModified
    /\ call.first.blob # call.second.blob

\* the value of one character of an uppercase hex string, 16 for any other character
C11_Digit(ch) ==
    CASE ch = "0" -> 0 [] ch = "1" -> 1 [] ch = "2" -> 2 [] ch = "3" -> 3
      [] ch = "4" -> 4 [] ch = "5" -> 5 [] ch = "6" -> 6 [] ch = "7" -> 7
      [] ch = "8" -> 8 [] ch = "9" -> 9 [] ch = "A" -> 10 [] ch = "B" -> 11
      [] ch = "C" -> 12 [] ch = "D" -> 13 [] ch = "E" -> 14 [] ch = "F" -> 15
      [] OTHER -> 16

\* C11: fmt(calc(bytes)) is a string of exactly 8 characters among 0-9 and A-F
\* that gives the four octets of the CRC most significant first; calc of the
\* empty sequence is 0 and its string is "00000000".
C11_FmtCalc ==
    call.op = "calc" =>
        /\ Len(call.fmt) = 8
        /\ \A k \in 1..8 : C11_Digit(call.fmt[k]) < 16
        /\ 4096 * C11_Digit(call.fmt[1]) + 256 * C11_Digit(call.fmt[2])
           + 16 * C11_Digit(call.fmt[3]) + C11_Digit(call.fmt[4])
           = call.ret[1] % 65536
        /\ 4096 * C11_Digit(call.fmt[5]) + 256 * C11_Digit(call.fmt[6])
           + 16 * C11_Digit(call.fmt[7]) + C11_Digit(call.fmt[8])
           = call.ret[2]
        /\ call.bytes = << >> =>
              /\ call.ret = <<0, 0>>
              /\ call.fmt = <<"0", "0", "0", "0", "0", "0", "0", "0">>

\* the CRC of the one byte 61 was formatted: E8B7BE43, with letters and with the
\* top bit set
C11_Witness ==
    /\ call.op = "calc"
    /\ call.bytes = <<97>>
    /\ call.fmt = <<"E", "8", "B", "7", "B", "E", "4", "3">>

\* C12: for every ZipDateTime t whose fields fit the packed layout (year 1980..2107,
\* month 0..15, day 0..31, hour 0..31, minute 0..63, second 0..59),
\* fromInt(toInt(t)) has the fields of t, except that an odd second comes back as
\* second - 1.
C12_DateRoundTrip ==
    call.op = "fromInt" =>
        /\ call.ret.year = call.dt.year
        /\ call.ret.month = call.dt.month
        /\ call.ret.day = call.dt.day
        /\ call.ret.hour = call.dt.hour
        /\ call.ret.minute = call.dt.minute
        /\ call.dt.second % 2 = 0 => call.ret = call.dt
        /\ call.dt.second % 2 = 1 => call.ret.second = call.dt.second - 1

\* a time of the year 2107 with an odd second went through toInt, which returned a
\* negative number, and fromInt
C12_Witness ==
    /\ call.op = "fromInt"
    /\ call.dt = [year |-> 2107, month |-> 12, day |-> 31, hour |-> 23, minute |-> 59,
                  second |-> 59]
    /\ call.i[1] < 0
    /\ call.ret.second = 58

\* C13, as stated: for each record kind and every record x whose numeric fields are
\* within their unsigned 16/32 bit widths and whose byte fields are at most 65535
\* bytes long, from(cursor over x.toBytes()) yields a record whose fields all equal
\* those of x.
C13_RecordRoundTrip ==
    call.op = "from" => (call.ret.ok /\ call.ret.record = call.record)

\* C13, amended: the same for every such record that has no lastModified or whose
\* lastModified has an even second; with an odd second the record comes back with
\* lastModified.second one less and every other field equal.
C13_RecordRoundTripEven ==
    call.op = "from" =>
        /\ call.ret.ok
        /\ call.ret.offset = Len(call.bytes)
        /\ call.kind = "EndOfCentralDirectoryRecord" => call.ret.record = call.record
        /\ call.kind # "EndOfCentralDirectoryRecord" =>
              /\ call.record.lastModified.second % 2 = 0 => call.ret.record = call.record
              /\ call.ret.record =
                    [call.record EXCEPT
                        !.lastModified.second = 2 * (call.record.lastModified.second \div 2)]

\* a CentralDirectoryEntry with a name of 300 bytes, fields up to 65535 and a time
\* of the year 2044 was serialized and parsed back
C13_Witness ==
    /\ call.op = "from"
    /\ call.kind = "CentralDirectoryEntry"
    /\ Len(call.record.fileNameBytes) = 300
    /\ call.record.internalAttributes = 65535
    /\ call.record.headerOffset = <<65535, 65525>>
    /\ call.record.lastModified.year = 2044
    /\ call.ret.ok
    /\ call.ret.record = call.record

\* C14: an Extractor constructed from a well-formed archive can be iterated with
\* for...of: the iteration yields one item per entry, in directory order, and the
\* body of each item is the response pick(i) returns for the entry, which gives
\* the entry's decompressed bytes.
C14_Iteration ==
    (call.op = "iterate" /\ given.built) =>
        /\ ~call.ret.threw
        /\ Len(call.ret.items) = Len(given.inputs)
        /\ \A i \in 1..Len(call.ret.items) :
              /\ call.ret.items[i].entry.fileNameBytes
                 = TextEncode(given.inputs[i].filepath)
              /\ call.ret.items[i].body
                 = (IF call.variant = "zip.js" THEN pick(zf.contents, i - 1)
                    ELSE pickView(zv.contents, i - 1))
              /\ call.ret.items[i].body.stream
                 = [ok |-> TRUE, bytes |-> given.inputs[i].buf]

\* for...of on the Extractor zip.js made of a built archive of two entries threw
C14_Witness ==
    /\ call.op = "iterate"
    /\ call.variant = "zip.js"
    /\ given.built
    /\ zf.ok
    /\ Len(zf.contents) = 2
    /\ call.ret.threw
    /\ call.ret.items = << >>

RECURSIVE C20_Bits(_, _)
\* j rounds of the reference shift register on the unsigned value c:
\* c = c odd ? (c >> 1) xor EDB88320 : c >> 1
C20_Bits(c, j) ==
    IF j = 0 THEN c
    ELSE LET half == <<c[1] \div 2, (c[2] \div 2) + 32768 * (c[1] % 2)>>
             next == IF c[2] % 2 = 1
                     THEN <<Xor16(half[1], 60856, 16), Xor16(half[2], 33568, 16)>>
                     ELSE half
         IN  IF next = next THEN C20_Bits(next, j - 1) ELSE c

RECURSIVE C20_Register(_, _)
\* the reference register after the first k bytes, from FFFFFFFF
C20_Register(bytes, k) ==
    IF k = 0 THEN <<65535, 65535>>
    ELSE LET c == C20_Register(bytes, k - 1)
             next == C20_Bits(<<c[1], Xor16(c[2], bytes[k], 16)>>, 8)
         IN  IF next = next THEN next ELSE c

\* the reference CRC-32 of bytes, an integer in [0, 2^32) as a pair
C20_Reference(bytes) ==
    <<65535 - C20_Register(bytes, Len(bytes))[1], 65535 - C20_Register(bytes, Len(bytes))[2]>>

\* C15: right after an append with method store, the directory entry and the local
\* header it pushed both have compressedSize = uncompressedSize = the input's
\* length and crc32 = what calc returns for the input, which has the bit pattern
\* of the reference CRC-32; the body is the input unchanged; for an input of
\* length 0 the sizes and the crc32 are 0.
C15_AppendStore ==
    (call.op = "append" /\ ~call.threw /\ call.options.method = <<0>>) =>
        LET cd == centralDirectory[Len(centralDirectory)]
            content == contents[Len(contents)]
        IN  /\ cd.method = 0
            /\ content.header.method = 0
            /\ cd.compressedSize = W(Len(call.buf))
            /\ cd.uncompressedSize = W(Len(call.buf))
            /\ content.header.compressedSize = W(Len(call.buf))
            /\ content.header.uncompressedSize = W(Len(call.buf))
            /\ content.body = call.buf
            /\ cd.crc32 = calc(call.buf)
            /\ content.header.crc32 = calc(call.buf)
            /\ ToUint32(cd.crc32) = C20_Reference(call.buf)
            /\ call.buf = << >> =>
                  /\ cd.compressedSize = <<0, 0>>
                  /\ cd.uncompressedSize = <<0, 0>>
                  /\ cd.crc32 = <<0, 0>>
                  /\ content.header.crc32 = <<0, 0>>
                  /\ content.body = << >>

\* an empty file was appended with method store after a file of two bytes was
C15_Witness ==
    /\ call.op = "append"
    /\ ~call.threw
    /\ call.options.method = <<0>>
    /\ call.buf = << >>
    /\ Len(contents) = 2
    /\ Len(centralDirectory) = 2
    /\ contents[1].header.method = 0
    /\ contents[1].body = <<104, 105>>
    /\ contents[2].body = << >>

\* C16: after any sequence of completed append and remove(index, count) calls, of
\* any index and any count, centralDirectory and contents have the same length and
\* at every position the directory entry and the header of the content have the
\* same name bytes, method, crc32, compressedSize and uncompressedSize.
C16_LockStep ==
    /\ Len(centralDirectory) = Len(contents)
    /\ \A i \in 1..Len(contents) :
          /\ centralDirectory[i].fileNameBytes = contents[i].header.fileNameBytes
          /\ centralDirectory[i].method = contents[i].header.method
          /\ centralDirectory[i].crc32 = contents[i].header.crc32
          /\ centralDirectory[i].compressedSize = contents[i].header.compressedSize
          /\ centralDirectory[i].uncompressedSize = contents[i].header.uncompressedSize

\* remove(0, 2) on two entries has emptied centralDirectory and left in contents
\* the file that was second
C16_Witness ==
    /\ call.op = "remove"
    /\ call.index = 0
    /\ call.count = 2
    /\ Len(call.ret) = 2
    /\ Len(centralDirectory) = 0
    /\ Len(contents) = 1
    /\ TextDecode(contents[1].header.fileNameBytes) = call.ret[2]

C18_ServiceFailure ==
    [][(call'.op = "append" /\ appendMethod(call'.options) = 8 /\ call'.service # << >>) =>
          /\ call'.threw
          /\ <<call'.reason>> = call'.service
          /\ centralDirectory' = centralDirectory
          /\ contents' = contents]_vars

\* a deflate append has been rejected with the error of the service on a Builder
\* that holds one entry
C18_Witness ==
    /\ call.op = "append"
    /\ appendMethod(call.options) = 8
    /\ call.service = <<"TypeError: compression failed">>
    /\ call.threw
    /\ call.reason = "TypeError: compression failed"
    /\ Len(centralDirectory) = 1
    /\ Len(contents) = 1

\* C19: a pick that fails (it throws for an index out of range or, in zip.js, for an
\* unsupported method; part_001 answers an unsupported method with status 418)
\* leaves the eocd, the directory list and the contents of the Extractor, in both
\* variants, as they were; and a pick that follows a failed one and finds an entry
\* of method 0 or 8 returns what the same pick returns on an Extractor newly
\* constructed from the same buffer, on which no pick has failed.
C19_FailedPickFrame ==
    [][call'.op = "pick" =>
          LET failed == call'.ret.threw \/ call'.ret.status = 418
              list == IF call'.variant = "zip.js" THEN zf'.contents ELSE zv'.contents
              found == atDefined(list, call'.index)
              method == list[atPosition(list, call'.index)].header.method
          IN  /\ failed => (zf' = zf /\ zv' = zv)
              /\ (call'.afterFailure /\ found /\ method \in {0, 8}) =>
                    /\ ~failed
                    /\ call'.variant = "zip.js" =>
                          call'.ret = pick(Extractor(given.buffer).contents, call'.index)
                    /\ call'.variant = "part_001" =>
                          call'.ret = pickView(ExtractorView(given.buffer).contents,
                                               call'.index)]_vars

\* on the archive whose first entry has method 12, a pick of zip.js that followed a
\* failed pick found the second entry and streams its two bytes
C19_Witness ==
    /\ call.op = "pick"
    /\ call.variant = "zip.js"
    /\ call.afterFailure
    /\ call.index = 1
    /\ given.buffer = MixedArchive
    /\ Len(zf.contents) = 2
    /\ Len(zf.centralDirectory) = 2
    /\ zf.contents[1].header.method = 12
    /\ zf.contents[2].header.method = 8
    /\ ~call.ret.threw
    /\ call.ret.status = 200
    /\ call.ret.stream = [ok |-> TRUE, bytes |-> <<97, 98>>]

\* C20: for every byte sequence calc returns an integer in [0, 2^32) that equals
\* the reference bit-by-bit reflected CRC-32 (polynomial EDB88320, initial value
\* and final xor FFFFFFFF).
C20_CalcIsReference ==
    call.op = "calc" =>
        /\ call.ret[1] >= 0
        /\ call.ret[1] < 65536
        /\ call.ret = C20_Reference(call.bytes)

\* calc of the one byte 61 returned a negative number with the bit pattern of the
\* reference CRC E8B7BE43
C20_Witness ==
    /\ call.op = "calc"
    /\ call.bytes = <<97>>
    /\ C20_Reference(call.bytes) = <<59575, 48707>>
    /\ call.ret = <<59575 - 65536, 48707>>
    /\ ToUint32(call.ret) = C20_Reference(call.bytes)


\* C21: for every unsigned 32 bit value i, fromInt(i).toInt() is a number equal to i
\* modulo 2^32, and the four bytes writeInt makes of it are the little-endian bytes
\* of i, whatever the month, day, hour and minute fields of i hold.
C21_PatternRoundTrip ==
    call.op = "fromIntToInt" =>
        /\ ToUint32(call.ret) = call.i
        /\ call.bytes = <<call.i[2] % 256, call.i[2] \div 256,
                          call.i[1] % 256, call.i[1] \div 256>>

\* the pattern of all ones: month 15, day 31, hour 31, minute 63, second 62, year
\* 2107; toInt returned -1
C21_Witness ==
    /\ call.op = "fromIntToInt"
    /\ call.i = <<65535, 65535>>
    /\ call.dt = [year |-> 2107, month |-> 15, day |-> 31, hour |-> 31, minute |-> 63,
                  second |-> 62]
    /\ call.ret = <<-1, 65535>>
    /\ call.bytes = <<255, 255, 255, 255>>


\* C22: on a cursor over a buffer of length L, moveTo(index) with index > L throws,
\* and so does every write, writeUshort, writeInt and set whose end position
\* (offset + the number of bytes) is beyond L; the error is 'Index is invalid';
\* after a moveTo or a set that threw, the offset and the bytes are what they were.
C22_BeyondEndThrows ==
    LET L == Len(call.before.bytes)
        size == CASE call.op = "write" -> 1
                  [] call.op = "writeUshort" -> 2
                  [] call.op = "writeInt" -> 4
                  [] call.op = "set" -> Len(call.arg)
                  [] OTHER -> 0
    IN  /\ (call.op = "moveTo" /\ call.arg > L) => call.threw
        /\ (call.op \in {"write", "writeUshort", "writeInt", "set"}
            /\ call.before.offset + size > L) =>
                /\ call.threw
                /\ call.reason[1] = "Index is invalid: "
        /\ (call.op \in {"moveTo", "set"} /\ call.threw) => call.cursor = call.before

\* set of five bytes at offset 0 of four bytes threw after a writeUshort had
\* changed the buffer, and left the buffer and the offset as they were
C22_Witness ==
    /\ call.op = "set"
    /\ call.arg = <<7, 8, 7, 8, 7>>
    /\ call.threw
    /\ call.before = [offset |-> 0, bytes |-> <<7, 8, 0, 0>>]
    /\ call.cursor = call.before

\* C30: after every cursor operation, also one that throws, 0 <= offset <= length.
C30_OffsetInRange ==
    call.cursor.offset >= 0 /\ call.cursor.offset <= Len(call.cursor.bytes)

\* moveTo(-1) did not throw and left the offset at -1
C30_Witness ==
    /\ call.op = "moveTo"
    /\ call.arg = -1
    /\ ~call.threw
    /\ call.before.offset = 0
    /\ call.cursor.offset = -1


\* C23: in both variants, for an archive that was parsed, contents has
\* eocd.numOfFiles elements, one per directory entry in the order of the directory,
\* and the body of element i is the range of the buffer that starts at the
\* headerOffset of directory entry i + 30 + the name length + the extra field length
\* of the local header there, and is as long as the compressedSize of directory
\* entry i.
C23_BodyRange ==
    LET bodyOf(record) ==
            LET at == WVal(record.headerOffset)
                start == at + 30 + readAsUshort(given.buffer, at + 26)
                            + readAsUshort(given.buffer, at + 28)
            IN  SubSeq(given.buffer, start + 1, start + WVal(record.compressedSize))
    IN  /\ zf.ok =>
            /\ Len(zf.contents) = zf.eocd.numOfFiles
            /\ Len(zf.contents) = Len(zf.centralDirectory)
            /\ \A i \in 1..Len(zf.contents) :
                  zf.contents[i].body = bodyOf(zf.centralDirectory[i])
        /\ zv.ok =>
            /\ Len(zv.contents) = zv.eocd.numOfFiles
            /\ Len(zv.contents) = Len(zv.cd)
            /\ \A i \in 1..Len(zv.contents) :
                  zv.contents[i].body = bodyOf(zv.cd[i])

\* both variants have parsed a built archive of two entries whose bodies differ in
\* length, the second of them not empty
C23_Witness ==
    /\ call.op = "extract"
    /\ given.built
    /\ zf.ok
    /\ zv.ok
    /\ Len(zf.contents) = 2
    /\ Len(zv.contents) = 2
    /\ Len(zf.contents[1].body) # Len(zf.contents[2].body)
    /\ Len(zv.contents[2].body) > 0
    /\ WVal(zv.cd[2].headerOffset) > 0


\* C24: in both variants, after the construction every entry whose local header has
\* flag bit 3 set has in its header the crc32, compressedSize and uncompressedSize
\* that the data descriptor after its body holds, as unsigned 32 bit values, the
\* descriptor starting with the signature 08074B50 or not.
C24_DescriptorOverrides ==
    LET descriptorOf(record) ==
            LET at == WVal(record.headerOffset)
                end == at + 30 + readAsUshort(given.buffer, at + 26)
                          + readAsUshort(given.buffer, at + 28)
                          + WVal(record.compressedSize)
                from == IF readAsUint(given.buffer, end) = <<2055, 19280>>
                        THEN end + 4 ELSE end
            IN  [crc32 |-> readAsUint(given.buffer, from),
                 compressedSize |-> readAsUint(given.buffer, from + 4),
                 uncompressedSize |-> readAsUint(given.buffer, from + 8)]
        agrees(header, record) ==
            hasDataDescriptor(header) =>
                /\ header.crc32 = descriptorOf(record).crc32
                /\ header.compressedSize = descriptorOf(record).compressedSize
                /\ header.uncompressedSize = descriptorOf(record).uncompressedSize
    IN  /\ zf.ok => \A i \in 1..Len(zf.contents) :
                        agrees(zf.contents[i].header, zf.centralDirectory[i])
        /\ zv.ok => \A i \in 1..Len(zv.contents) :
                        agrees(zv.contents[i].header, zv.cd[i])

\* the archive with the descriptor of 12 bytes was parsed by both variants: zip.js
\* has the crc32 D8932AAC of the descriptor as a negative number in the header,
\* part_001 has left the header with crc32 0 and the sizes 0
C24_Witness ==
    /\ call.op = "extract"
    /\ given.buffer = DescriptorArchive(FALSE)
    /\ zf.ok
    /\ zv.ok
    /\ hasDataDescriptor(zf.contents[1].header)
    /\ hasDataDescriptor(zv.contents[1].header)
    /\ zf.contents[1].header.crc32 = <<55443 - 65536, 10924>>
    /\ zf.contents[1].header.compressedSize = <<0, 2>>
    /\ zv.contents[1].header.crc32 = <<0, 0>>
    /\ zv.contents[1].header.compressedSize = <<0, 0>>
    /\ zv.contents[1].body = <<104, 105>>


\* C25: the construction of an Extractor hands no entry to the decompression
\* service; an entry is handed to it only by a pick call whose index selects that
\* entry, and by no other call.
C25_LazyDecode ==
    [][/\ call'.op = "extract" => call'.decompress = << >>
       /\ call'.op = "pick" =>
             LET list == IF call'.variant = "zip.js" THEN zf.contents ELSE zv.contents
             IN  /\ Len(call'.decompress) <= 1
                 /\ \A k \in 1..Len(call'.decompress) :
                       /\ atDefined(list, call'.index)
                       /\ call'.decompress[k] = atPosition(list, call'.index) - 1
                       /\ list[call'.decompress[k] + 1].header.method = 8
                       /\ call'.ret.stream = Decompress(list[call'.decompress[k] + 1].body)
       /\ call'.op \notin {"extract", "pick"} => "decompress" \notin DOMAIN call']_vars

\* pick(1) of zip.js on the archive whose second entry is deflated handed that entry
\* to the service; the first entry, of method 12, was not handed to it
C25_Witness ==
    /\ call.op = "pick"
    /\ call.variant = "zip.js"
    /\ call.index = 1
    /\ given.buffer = MixedArchive
    /\ zf.contents[2].header.method = 8
    /\ call.decompress = <<1>>
    /\ call.ret.stream = [ok |-> TRUE, bytes |-> <<97, 98>>]

\* C26: for every entry whose flag bit 11 is set, the path getPaths(encoding) of
\* zip.js and getNames(encoding) of part_001 return is the UTF-8 decoding of the name
\* bytes whatever the encoding passed; for the other entries it is the decoding by
\* the encoding passed, UTF-8 when none is.
C26_Utf8Flag ==
    call.op = "getPaths" =>
        LET names == IF call.variant = "zip.js"
                     THEN [i \in 1..Len(zf.contents) |-> zf.contents[i].header]
                     ELSE zv.cd
        IN  /\ Len(call.ret) = Len(names)
            /\ \A i \in 1..Len(names) :
                  call.ret[i] = IF isUtf8(names[i]) THEN TextDecode(names[i].fileNameBytes)
                                ELSE decode(call.encoding, names[i].fileNameBytes)

\* getPaths('windows-1252') of zip.js returned the three characters C3 A9 'b' for
\* an entry with flag bit 11 whose name bytes are the UTF-8 of E9 'b'
C26_Witness ==
    /\ call.op = "getPaths"
    /\ call.variant = "zip.js"
    /\ call.encoding = <<"windows-1252">>
    /\ Len(zf.contents) = 1
    /\ isUtf8(zf.contents[1].header)
    /\ zf.contents[1].header.fileNameBytes = <<195, 169, 98>>
    /\ TextDecode(zf.contents[1].header.fileNameBytes) = <<233, 98>>
    /\ call.ret = <<(<<195, 169, 98>>)>>


\* C27: whatever the caller writes to the buffers it passed to completed appends,
\* the body bytes build writes for every entry are those the append stored for the
\* bytes the buffer held then (the input for store, the compressed input for
\* deflate), and the crc32 recorded for the entry is the CRC of the bytes the body
\* stands for.
C27_BuilderOwnsBytes ==
    (call.op = "build" /\ ~call.threw) =>
        \A i \in 1..Len(contents) :
            LET start == buildOffset(contents, i)
                            + Len(LocalFileHeader_toBytes(contents[i].header))
                body == SubSeq(call.blob, start + 1,
                               start + WVal(centralDirectory[i].compressedSize))
                method == centralDirectory[i].method
            IN  /\ body = appendBody(inputs[i].buf, method)
                /\ method = 0 => calc(body) = centralDirectory[i].crc32
                /\ method = 8 => /\ Decompress(body).ok
                                 /\ calc(Decompress(body).bytes) = centralDirectory[i].crc32

\* build has written the body 00 69 for the stored entry appended with the bytes
\* 68 69, under the crc32 of 68 69
C27_Witness ==
    /\ call.op = "build"
    /\ ~call.threw
    /\ Len(contents) = 1
    /\ centralDirectory[1].method = 0
    /\ inputs[1].buf = <<104, 105>>
    /\ centralDirectory[1].crc32 = calc(<<104, 105>>)
    /\ contents[1].body = <<0, 105>>
    /\ SubSeq(call.blob, Len(LocalFileHeader_toBytes(contents[1].header)) + 1,
              Len(LocalFileHeader_toBytes(contents[1].header)) + 2) = <<0, 105>>


\* C28: whatever the interleaving of overlapping appends, remove(index) and build,
\* in every state centralDirectory and contents have the same length, and at every
\* index both are the records of the same appended file: its name, method, crc32
\* and sizes in both, and its stored bytes as the body.
C28_OverlapLockStep ==
    /\ Len(centralDirectory) = Len(contents)
    /\ Len(inputs) = Len(contents)
    /\ \A i \in 1..Len(contents) :
          /\ centralDirectory[i].fileNameBytes = TextEncode(inputs[i].filepath)
          /\ contents[i].header.fileNameBytes = TextEncode(inputs[i].filepath)
          /\ centralDirectory[i].method = contents[i].header.method
          /\ centralDirectory[i].crc32 = calc(inputs[i].buf)
          /\ contents[i].header.crc32 = calc(inputs[i].buf)
          /\ centralDirectory[i].uncompressedSize = W(Len(inputs[i].buf))
          /\ contents[i].header.uncompressedSize = W(Len(inputs[i].buf))
          /\ centralDirectory[i].compressedSize = W(Len(contents[i].body))
          /\ contents[i].header.compressedSize = W(Len(contents[i].body))
          /\ contents[i].body = appendBody(inputs[i].buf, contents[i].header.method)

\* a deflate append has resumed after a store append, invoked while it was
\* suspended, had completed: both lists hold the two files
C28_Witness ==
    /\ call.op = "resume"
    /\ Len(contents) = 2
    /\ Len(centralDirectory) = 2
    /\ suspended = << >>
    /\ contents[1].header.method = 0
    /\ contents[2].header.method = 8
    /\ centralDirectory[2].method = 8
    /\ inputs[2].invoked < inputs[1].invoked

\* C29: the entries of the appends that completed are in both lists in the order
\* the appends were invoked in, also when one was invoked while an earlier one was
\* suspended.
C29_InvocationOrder ==
    \A i, j \in 1..Len(contents) :
        (i < j /\ i <= Len(inputs) /\ j <= Len(inputs)) =>
            inputs[i].invoked < inputs[j].invoked

\* the deflate append invoked first sits at index 1, behind the store append invoked
\* second while the first was suspended
C29_Witness ==
    /\ call.op = "resume"
    /\ call.invoked = 1
    /\ call.ret = 2
    /\ Len(contents) = 2
    /\ inputs[1].invoked = 2
    /\ inputs[2].invoked = 1
    /\ contents[1].header.method = 0
    /\ contents[1].body = inputs[1].buf
    /\ contents[2].header.method = 8
    /\ centralDirectory[2].fileNameBytes = TextEncode(inputs[2].filepath)

====
